---------------------------- MODULE Spec2Model ----------------------------
(***************************************************************************)
(* Polychrome Capture: the content script's heuristic extraction engine    *)
(* (candidate collection, due-keyword gate, date/time parsing, title       *)
(* resolution, text clean-up, deduplication) and the service worker's      *)
(* SAVE_TASKS path, as state machines.                                     *)
(*                                                                         *)
(* Texts are sequences of one-character strings, so that the regular       *)
(* expressions of the source are matched character by character.           *)
(***************************************************************************)
EXTENDS Integers, Sequences, FiniteSets, TLC

VARIABLES
    frags,      \* parser input: the words the text is made of (indices into a vocabulary)
    vocab,      \* parser input: which vocabulary the words are drawn from
    text,       \* parser input: the text the words spell
    env,        \* parser input: the clock and the time zone, [now, tz]
    pc,         \* parser: "input" before parseDateTimeFromText ran, "done" after
    dateOut,    \* parser: what parseDate returned
    timeOut,    \* parser: what parseTime returned
    localOut,   \* parser: the Date object after setHours
    dueOut,     \* parser: what parseDateTimeFromText returned
    normIn,     \* normalizeTime: its arguments [hours, minutes, meridian]
    normOut,    \* normalizeTime: what it returned
    cleanLines, \* cleanRawText input: the lines of the text (indices into LineWords)
    cleanIn,    \* cleanRawText input: the text
    cleanPc,    \* cleanRawText: "input" before it ran, "done" after
    cleanLocals,\* cleanRawText: deduped, and the locals of formatAsBreadcrumb's loop
    cleanOut,   \* cleanRawText: what it returned
    doc,        \* the document the content script runs in
    scrapePc,   \* scrapeTasks: "loaded" before it ran, "scraped" after
    candidates, \* scrapeTasks: what findCandidateElements returned
    results,    \* scrapeTasks: what it returned
    titleEl,    \* getTitle: its argument
    titleOut,   \* getTitle: what it returned
    saveList,   \* popup: the tasks of its list when Save is clicked
    originReady,\* worker: the promise originReady has resolved
    saveMsg,    \* the SAVE_TASKS message on its way to the worker
    saveResp,   \* the worker's answer to SAVE_TASKS
    workerPc,   \* worker: where saveTasks stands
    merged,     \* saveTasks: merged
    saveIdx,    \* saveTasks: the position of its loop in merged
    saveResults,\* saveTasks: results
    posted,     \* the bodies of the POSTs sent so far
    fetched,    \* what the fetches settled with so far
    popupPc,    \* popup: where onSave stands
    statusEl,   \* popup: the status line, [text, type]
    hideTimer,  \* popup: the timer for hideStatus is set
    currentOrigin,   \* worker: currentOrigin
    stored,          \* chrome.storage.local: the value under apiOriginMode, <<>> when none
    storageQ,        \* chrome.storage.local: the get and set requests not yet carried out
    storageOut,      \* the get results and change events on their way to the worker
    envMsgs,         \* the GET_ENV and SET_ENV messages on their way to the worker
    envSent,         \* popup: how many SET_ENV messages it has sent
    lastMode,        \* popup: the mode of its last SET_ENV message, <<>> when none
    envResp,         \* the worker's last answer to GET_ENV
    injected,        \* page: window.__polychromeCaptureInjected
    requestScrape,   \* a REQUEST_SCRAPE message is on its way to the content script
    loadTimer,       \* popup: the timer for loadTasks is set
    tabMsgs,         \* the SCRAPED_TASKS messages on their way to the worker
    getLast,         \* a GET_LAST_TASKS message is on its way to the worker
    lastScrapedTasks,\* worker: lastScrapedTasks
    lastScrape,      \* [done, tasks]: scrapeTasks has been called, what its last call returned
    lastAnswer       \* the worker's last answer to GET_LAST_TASKS

parseVars == <<frags, vocab, text, env, pc, dateOut, timeOut, localOut, dueOut>>

normVars == <<normIn, normOut>>

cleanVars == <<cleanLines, cleanIn, cleanPc, cleanLocals, cleanOut>>

domVars == <<doc, scrapePc, candidates, results, titleEl, titleOut>>

saveVars == <<saveList, originReady, saveMsg, saveResp, workerPc, merged, saveIdx, saveResults,
              posted, fetched, popupPc, statusEl, hideTimer>>

envVars == <<currentOrigin, stored, storageQ, storageOut, envMsgs, envSent, lastMode, envResp>>

captureVars == <<injected, requestScrape, loadTimer, tabMsgs, getLast, lastScrapedTasks,
                 lastScrape, lastAnswer>>

vars == <<parseVars, normVars, cleanVars, domVars, saveVars, envVars, captureVars>>

-----------------------------------------------------------------------------
(* Characters                                                              *)

DigitChars == <<"0", "1", "2", "3", "4", "5", "6", "7", "8", "9">>

LowerChars == <<"a", "b", "c", "d", "e", "f", "g", "h", "i", "j", "k", "l", "m",
                "n", "o", "p", "q", "r", "s", "t", "u", "v", "w", "x", "y", "z">>

UpperChars == <<"A", "B", "C", "D", "E", "F", "G", "H", "I", "J", "K", "L", "M",
                "N", "O", "P", "Q", "R", "S", "T", "U", "V", "W", "X", "Y", "Z">>

Range(s) == {s[i] : i \in DOMAIN s}

Digits == Range(DigitChars)

LowerSet == Range(LowerChars)

UpperSet == Range(UpperChars)

\* \d
IsDigit(c) == c \in Digits

\* [a-z] under the i flag
IsLetter(c) == c \in LowerSet \cup UpperSet

\* \w
IsWordChar(c) == IsDigit(c) \/ IsLetter(c) \/ c = "_"

\* \s
IsSpace(c) == c \in {" ", "\n", "\t"}

DigitVal(c) == (CHOOSE i \in DOMAIN DigitChars : DigitChars[i] = c) - 1

\* String.prototype.toLowerCase, one character
LowerChar(c) ==
    IF c \in UpperSet
    THEN LowerChars[CHOOSE i \in DOMAIN UpperChars : UpperChars[i] = c]
    ELSE c

ToLower(t) == [i \in DOMAIN t |-> LowerChar(t[i])]

\* the character at position p (1-based), "" outside the text
At(t, p) == IF p \in DOMAIN t THEN t[p] ELSE ""

\* \b between position p-1 and position p
WordBoundary(t, p) == IsWordChar(At(t, p - 1)) # IsWordChar(At(t, p))

\* the literal w (lower case) at position p, compared as the i flag compares
LitAt(t, p, w) == \A k \in DOMAIN w : LowerChar(At(t, p + k - 1)) = w[k]

\* t.slice(p - 1, p - 1 + n)
Slice(t, p, n) == [k \in 1..n |-> t[p + k - 1]]

\* the element of a one-element set: One({F(x) : x \in {e}}) is F(e) with e
\* evaluated once
One(S) == CHOOSE r \in S : TRUE

\* parseInt of a run of digits
RECURSIVE ParseInt(_)
ParseInt(ds) ==
    IF ds = <<>> THEN 0
    ELSE 10 * ParseInt(SubSeq(ds, 1, Len(ds) - 1)) + DigitVal(ds[Len(ds)])

\* the items of a sequence of texts joined by a separator
RECURSIVE Join(_, _)
Join(ts, sep) ==
    IF ts = <<>> THEN <<>>
    ELSE IF Len(ts) = 1 THEN ts[1]
    ELSE One({ts[1] \o sep \o Join(rest, sep) : rest \in {Tail(ts)}})

MinOf(S) == One({(CHOOSE x \in T : \A y \in T : x <= y) : T \in {S}})

MaxOf(S) == One({(CHOOSE x \in T : \A y \in T : x >= y) : T \in {S}})

-----------------------------------------------------------------------------
(* The Date object: local calendar fields, as the JavaScript Date keeps    *)
(* them.  A date is [y, m, d] with m the month index 0..11; a date with a  *)
(* time of day adds h and mi.                                              *)

\* the value JavaScript's null stands for
Null == [null |-> TRUE]

IsLeap(y) == (y % 4 = 0 /\ y % 100 # 0) \/ y % 400 = 0

DaysInMonth(y, m) ==
    IF m = 1 THEN (IF IsLeap(y) THEN 29 ELSE 28)
    ELSE IF m \in {3, 5, 8, 10} THEN 30
    ELSE 31

\* MakeDay: a day number outside the month carries into the next or previous month
RECURSIVE NormDay(_, _, _)
NormDay(y, m, d) ==
    IF d < 1
    THEN LET pm == IF m = 0 THEN 11 ELSE m - 1
             py == IF m = 0 THEN y - 1 ELSE y
         IN  NormDay(py, pm, d + DaysInMonth(py, pm))
    ELSE IF d > DaysInMonth(y, m)
    THEN LET nm == IF m = 11 THEN 0 ELSE m + 1
             ny == IF m = 11 THEN y + 1 ELSE y
         IN  NormDay(ny, nm, d - DaysInMonth(y, m))
    ELSE [y |-> y, m |-> m, d |-> d]

\* a month index outside 0..11 carries into the year
MakeDate(y, m, d) == NormDay(y + (m \div 12), m % 12, d)

\* new Date(year, monthIndex, day): a year 0..99 means 1900 + year
NewDate(y, m, d) == MakeDate(IF y \in 0..99 THEN 1900 + y ELSE y, m, d)

\* date.setFullYear(y): the month and the day of the date are kept, then normalised
SetFullYear(date, y) == MakeDate(y, date.m, date.d)

\* base.setDate(base.getDate() + 1)
AddOneDay(date) == MakeDate(date.y, date.m, date.d + 1)

\* (y, m, d) of a before (y, m, d) of b
DayBefore(a, b) ==
    \/ a.y < b.y
    \/ a.y = b.y /\ a.m < b.m
    \/ a.y = b.y /\ a.m = b.m /\ a.d < b.d

\* date < now, for a date at local midnight and the instant now = [y, m, d, tod],
\* tod being the minutes elapsed of the day (the part of a minute counts as elapsed)
DateBeforeNow(date, now) ==
    \/ DayBefore(date, now)
    \/ date.y = now.y /\ date.m = now.m /\ date.d = now.d /\ now.tod > 0

\* date.setHours(h, mi, 0, 0): minutes past 59 carry into the hour, hours past 23 into the day
SetHours(date, h, mi) ==
    One({[y |-> day.y, m |-> day.m, d |-> day.d, h |-> (total % 1440) \div 60, mi |-> total % 60] :
            day \in {MakeDate(date.y, date.m, date.d + ((h * 60 + mi) \div 1440))},
            total \in {h * 60 + mi}})

\* a date at local midnight
AtMidnight(date) == [y |-> date.y, m |-> date.m, d |-> date.d, h |-> 0, mi |-> 0]

\* local fields to UTC fields; tz is getTimezoneOffset(), the minutes to add
ToUTC(local, tz) ==
    One({[y |-> day.y, m |-> day.m, d |-> day.d, h |-> (total % 1440) \div 60, mi |-> total % 60] :
            day \in {MakeDate(local.y, local.m,
                              local.d + ((local.h * 60 + local.mi + tz) \div 1440))},
            total \in {local.h * 60 + local.mi + tz}})

Pad2(n) == <<DigitChars[((n \div 10) % 10) + 1], DigitChars[(n % 10) + 1]>>

Pad4(n) == Pad2(n \div 100) \o Pad2(n % 100)

\* date.toISOString(): "YYYY-MM-DDTHH:MM:00.000Z" of the UTC fields (years 0..9999)
ToISOString(local, tz) ==
    One({Pad4(u.y) \o <<"-">> \o Pad2(u.m + 1) \o <<"-">> \o Pad2(u.d) \o <<"T">>
            \o Pad2(u.h) \o <<":">> \o Pad2(u.mi)
            \o <<":", "0", "0", ".", "0", "0", "0", "Z">> : u \in {ToUTC(local, tz)}})

-----------------------------------------------------------------------------
(* DATE_PATTERNS and parseDate                                             *)

MonthNames == << <<"j","a","n">>, <<"f","e","b">>, <<"m","a","r">>, <<"a","p","r">>,
                 <<"m","a","y">>, <<"j","u","n">>, <<"j","u","l">>, <<"a","u","g">>,
                 <<"s","e","p">>, <<"o","c","t">>, <<"n","o","v">>, <<"d","e","c">> >>

WeekdayNames == << <<"m","o","n">>, <<"t","u","e">>, <<"w","e","d">>, <<"t","h","u">>,
                   <<"f","r","i">>, <<"s","a","t">>, <<"s","u","n">> >>

Ordinals == << <<"s","t">>, <<"n","d">>, <<"r","d">>, <<"t","h">> >>

\* months[str.toLowerCase().slice(0, 3)] ?? -1
parseMonth(str) ==
    One({IF \E i \in DOMAIN MonthNames : MonthNames[i] = key
         THEN (CHOOSE i \in DOMAIN MonthNames : MonthNames[i] = key) - 1
         ELSE -1 : key \in {ToLower(SubSeq(str, 1, 3))}})

\* one of jan|feb|...|dec (sept is sep followed by a letter) starts at p
MonthAt(t, p) == \E i \in DOMAIN MonthNames : LitAt(t, p, MonthNames[i])

\* [a-z]* and \s* from p, taking all there is: the position after the run
RECURSIVE EndOfLetters(_, _)
EndOfLetters(t, p) == IF IsLetter(At(t, p)) THEN EndOfLetters(t, p + 1) ELSE p

RECURSIVE EndOfSpaces(_, _)
EndOfSpaces(t, p) == IF IsSpace(At(t, p)) THEN EndOfSpaces(t, p + 1) ELSE p

\* [,.]? taken when it is there
AfterPunct(t, p) == IF At(t, p) \in {",", "."} THEN p + 1 ELSE p

\* \.? taken when it is there
AfterDot(t, p) == IF At(t, p) = "." THEN p + 1 ELSE p

OrdinalAt(t, p) == \E i \in DOMAIN Ordinals : LitAt(t, p, Ordinals[i])

\* (mon)[a-z]*\.?\s+ from p: the position of the day's first digit, 0 when it fails
DayStart(t, p) ==
    IF ~MonthAt(t, p) THEN 0
    ELSE One({IF e3 > e2 /\ IsDigit(At(t, e3)) THEN e3 ELSE 0 :
                 e2 \in {AfterDot(t, EndOfLetters(t, p + 3))},
                 e3 \in {EndOfSpaces(t, AfterDot(t, EndOfLetters(t, p + 3)))}})

\* iso: /\b(\d{4})-(\d{2})-(\d{2})\b/ matches at p
IsoAt(t, p) ==
    /\ WordBoundary(t, p)
    /\ \A k \in {0, 1, 2, 3, 5, 6, 8, 9} : IsDigit(At(t, p + k))
    /\ At(t, p + 4) = "-"
    /\ At(t, p + 7) = "-"
    /\ WordBoundary(t, p + 10)

\* text.match(DATE_PATTERNS.iso): the groups of the leftmost match, as parseInt reads them
IsoMatch(t) ==
    One({IF ps = {} THEN Null
         ELSE One({[g1 |-> ParseInt(Slice(t, p, 4)),
                    g2 |-> ParseInt(Slice(t, p + 5, 2)),
                    g3 |-> ParseInt(Slice(t, p + 8, 2))] : p \in {MinOf(ps)}}) :
            ps \in {{p \in DOMAIN t : IsoAt(t, p)}}})

\* monthDay, after the day's digits end at e: (?:st|nd|rd|th)?\b
MdTail(t, e) == (OrdinalAt(t, e) /\ WordBoundary(t, e + 2)) \/ WordBoundary(t, e)

\* monthDay matches at p: the number of digits of the day (two tried first), 0 when none
MdDigits(t, p) ==
    IF ~WordBoundary(t, p) THEN 0
    ELSE One({IF ds = 0 THEN 0
              ELSE IF IsDigit(At(t, ds + 1)) /\ MdTail(t, ds + 2) THEN 2
              ELSE IF MdTail(t, ds + 1) THEN 1
              ELSE 0 : ds \in {DayStart(t, p)}})

\* text.match(DATE_PATTERNS.monthDay)
MonthDayMatch(t) ==
    One({IF ps = {} THEN Null
         ELSE One({[g1 |-> Slice(t, p, 3),
                    g2 |-> ParseInt(Slice(t, DayStart(t, p), MdDigits(t, p)))] :
                      p \in {MinOf(ps)}}) :
            ps \in {{p \in DOMAIN t : MdDigits(t, p) > 0}}})

\* [,.]?\s*(\d{4})\b from o: the position of the year, 0 when it fails
YearAt(t, o) ==
    One({IF (\A k \in 0..3 : IsDigit(At(t, y + k))) /\ WordBoundary(t, y + 4) THEN y ELSE 0 :
            y \in {EndOfSpaces(t, AfterPunct(t, o))}})

\* monthDayYear, after the day's digits end at e: (?:st|nd|rd|th)?[,.]?\s*(\d{4})\b;
\* the position of the year, 0 when it fails
YearStart(t, e) ==
    One({IF withOrd > 0 THEN withOrd ELSE YearAt(t, e) :
            withOrd \in {IF OrdinalAt(t, e) THEN YearAt(t, e + 2) ELSE 0}})

\* the month of monthDayYear at q: the number of digits of the day, 0 when none
MdyDigits(t, q) ==
    One({IF ds = 0 THEN 0
         ELSE IF IsDigit(At(t, ds + 1)) /\ YearStart(t, ds + 2) > 0 THEN 2
         ELSE IF YearStart(t, ds + 1) > 0 THEN 1
         ELSE 0 : ds \in {DayStart(t, q)}})

\* the optional weekday prefix (?:(?:mon|...|sun)[a-z]*[,.]?\s*)? from p ends at q
WeekdayPrefix(t, p, q) ==
    /\ \E i \in DOMAIN WeekdayNames : LitAt(t, p, WeekdayNames[i])
    /\ \E e \in (p + 3)..q :
          /\ \A k \in (p + 3)..(e - 1) : IsLetter(At(t, k))
          /\ \E f \in {e, AfterPunct(t, e)} :
                f <= q /\ \A k \in f..(q - 1) : IsSpace(At(t, k))

\* monthDayYear matches from p with its month at q
MdyAt(t, p, q) ==
    /\ WordBoundary(t, p)
    /\ p = q \/ WeekdayPrefix(t, p, q)
    /\ MdyDigits(t, q) > 0

\* the groups of monthDayYear with its month at q
MdyGroups(t, q) ==
    One({[g1 |-> Slice(t, q, 3),
          g2 |-> ParseInt(Slice(t, ds, n)),
          g3 |-> ParseInt(Slice(t, YearStart(t, ds + n), 4))] :
            ds \in {DayStart(t, q)}, n \in {MdyDigits(t, q)}})

\* text.match(DATE_PATTERNS.monthDayYear): leftmost start, the prefix taken greedily
MonthDayYearMatch(t) ==
    One({IF ps = {} THEN Null
         ELSE One({MdyGroups(t, q) : q \in {MaxOf({x \in MinOf(ps)..Len(t) : MdyAt(t, MinOf(ps), x)})}}) :
            ps \in {{p \in DOMAIN t : \E q \in p..Len(t) : MdyAt(t, p, q)}}})

Today == <<"t","o","d","a","y">>

Tomorrow == <<"t","o","m","o","r","r","o","w">>

RelativeAt(t, p, w) == WordBoundary(t, p) /\ LitAt(t, p, w) /\ WordBoundary(t, p + Len(w))

\* lt.match(DATE_PATTERNS.relative)
RelativeIn(lt) ==
    One({IF ps = {} THEN Null
         ELSE [g1 |-> IF RelativeAt(lt, MinOf(ps), Tomorrow) THEN Tomorrow ELSE Today] :
            ps \in {{p \in DOMAIN lt : RelativeAt(lt, p, Today) \/ RelativeAt(lt, p, Tomorrow)}}})

\* text.toLowerCase().match(DATE_PATTERNS.relative)
RelativeMatch(t) == One({RelativeIn(lt) : lt \in {ToLower(t)}})

\* the month-name date without a year: the current year, the next one when already past
parseMonthDay(month, day, now) ==
    One({IF DateBeforeNow(date, now) THEN SetFullYear(date, now.y + 1) ELSE date :
            date \in {NewDate(now.y, month, day)}})

parseRelative(rel, now) ==
    One({IF rel = Tomorrow THEN AddOneDay(base) ELSE base :
            base \in {NewDate(now.y, now.m, now.d)}})

\* parseDate with the month-name patterns tried before the ISO pattern
parseDateMonthNameFirst(t, now) ==
    One({IF mdyMatch # Null /\ parseMonth(mdyMatch.g1) # -1
         THEN NewDate(mdyMatch.g3, parseMonth(mdyMatch.g1), mdyMatch.g2)
         ELSE IF mdMatch # Null /\ parseMonth(mdMatch.g1) # -1
         THEN parseMonthDay(parseMonth(mdMatch.g1), mdMatch.g2, now)
         ELSE IF isoMatch # Null
         THEN NewDate(isoMatch.g1, isoMatch.g2 - 1, isoMatch.g3)
         ELSE IF relMatch # Null
         THEN parseRelative(relMatch.g1, now)
         ELSE Null :
            isoMatch \in {IsoMatch(t)}, mdyMatch \in {MonthDayYearMatch(t)},
            mdMatch \in {MonthDayMatch(t)}, relMatch \in {RelativeMatch(t)}})

parseDate(t, now) ==
    One({IF isoMatch # Null
         THEN NewDate(isoMatch.g1, isoMatch.g2 - 1, isoMatch.g3)
         ELSE IF mdyMatch # Null /\ parseMonth(mdyMatch.g1) # -1
         THEN NewDate(mdyMatch.g3, parseMonth(mdyMatch.g1), mdyMatch.g2)
         ELSE IF mdMatch # Null /\ parseMonth(mdMatch.g1) # -1
         THEN parseMonthDay(parseMonth(mdMatch.g1), mdMatch.g2, now)
         ELSE IF relMatch # Null
         THEN parseRelative(relMatch.g1, now)
         ELSE Null :
            isoMatch \in {IsoMatch(t)}, mdyMatch \in {MonthDayYearMatch(t)},
            mdMatch \in {MonthDayMatch(t)}, relMatch \in {RelativeMatch(t)}})

-----------------------------------------------------------------------------
(* parseTime and normalizeTime.  A meridian is "am", "pm" or "" (absent).  *)

\* (am|pm) at p under the i flag, "" when neither is there
MeridianAt(t, p) ==
    IF LitAt(t, p, <<"a", "m">>) THEN "am"
    ELSE IF LitAt(t, p, <<"p", "m">>) THEN "pm"
    ELSE ""

\* (?::(\d{2}))? at p
HasMinutesAt(t, p) == At(t, p) = ":" /\ IsDigit(At(t, p + 1)) /\ IsDigit(At(t, p + 2))

\* normalizeTime without the test for a 24-hour reading
normalizeTimeNoHourCheck(hours, minutes, meridian) ==
    IF meridian = "pm"
    THEN [hours |-> hours + 12, minutes |-> minutes]
    ELSE IF meridian = "am" /\ hours = 12
    THEN [hours |-> 0, minutes |-> minutes]
    ELSE [hours |-> hours, minutes |-> minutes]

normalizeTime(hours, minutes, meridian) ==
    IF hours > 12
    THEN [hours |-> IF hours > 23 THEN hours % 24 ELSE hours, minutes |-> minutes]
    ELSE IF meridian = "pm" /\ hours < 12
    THEN [hours |-> hours + 12, minutes |-> minutes]
    ELSE IF meridian = "am" /\ hours = 12
    THEN [hours |-> 0, minutes |-> minutes]
    ELSE [hours |-> hours, minutes |-> minutes]

\* at|until|by at p
TimeKeywordLen(t, p) ==
    IF LitAt(t, p, <<"a", "t">>) THEN 2
    ELSE IF LitAt(t, p, <<"u", "n", "t", "i", "l">>) THEN 5
    ELSE IF LitAt(t, p, <<"b", "y">>) THEN 2
    ELSE 0

\* /(?:at|until|by)\s+(\d{1,2})(?::(\d{2}))?\s*(am|pm)?/i at p: the position of the
\* hour's first digit, 0 when it does not match
KeywordHourStart(t, p) ==
    One({IF n > 0 /\ e > p + n /\ IsDigit(At(t, e)) THEN e ELSE 0 :
            n \in {TimeKeywordLen(t, p)}, e \in {EndOfSpaces(t, p + TimeKeywordLen(t, p))}})

\* the groups of the keyword pattern with the hour's first digit at hs: every
\* quantifier takes what it can, nothing after the hour is required
KeywordGroups(t, hs) ==
    One({[hours    |-> ParseInt(Slice(t, hs, nd)),
          hasMin   |-> hm,
          minutes  |-> IF hm THEN ParseInt(Slice(t, hs + nd + 1, 2)) ELSE 0,
          meridian |-> MeridianAt(t, EndOfSpaces(t, IF hm THEN hs + nd + 3 ELSE hs + nd))] :
            nd \in {IF IsDigit(At(t, hs + 1)) THEN 2 ELSE 1},
            hm \in {HasMinutesAt(t, hs + (IF IsDigit(At(t, hs + 1)) THEN 2 ELSE 1))}})

\* text.match of the keyword pattern: the leftmost match
KeywordMatch(t) ==
    One({IF ps = {} THEN Null
         ELSE One({KeywordGroups(t, hs) : hs \in {KeywordHourStart(t, MinOf(ps))}}) :
            ps \in {{p \in DOMAIN t : KeywordHourStart(t, p) > 0}}})

\* \s*(am|pm)? from q with ws white-space characters, the meridian taken or not
TimeTail(t, q, ws, withMer) ==
    One({[ws |-> ws, mer |-> mer, end |-> q + ws + (IF mer = "" THEN 0 ELSE 2)] :
            mer \in {IF withMer THEN MeridianAt(t, q + ws) ELSE ""}})

\* \s*(am|pm)?\b from q: the ways to end the match, [ws, mer, end]
TimeTails(t, q) ==
    {x \in {TimeTail(t, q, ws, b) : ws \in 0..(EndOfSpaces(t, q) - q), b \in BOOLEAN} :
        WordBoundary(t, x.end)}

\* the tail the backtracking reaches first: most white space, then with a meridian
FirstTailOf(S) ==
    One({IF \E x \in W : x.mer # "" THEN CHOOSE x \in W : x.mer # "" ELSE CHOOSE x \in W : TRUE :
            W \in {{x \in S : x.ws = MaxOf({y.ws : y \in S})}}})

FirstTail(t, q) == One({FirstTailOf(S) : S \in {TimeTails(t, q)}})

\* /\b(\d{1,2})(?::(\d{2}))?\s*(am|pm)?\b/ at p with an hour of nd digits, minutes
\* taken (hm) or not
TimeShape(t, p, nd, hm) ==
    /\ WordBoundary(t, p)
    /\ \A k \in 0..(nd - 1) : IsDigit(At(t, p + k))
    /\ hm => HasMinutesAt(t, p + nd)
    /\ TimeTails(t, p + nd + (IF hm THEN 3 ELSE 0)) # {}

\* the shapes in the order the backtracking tries them
TimeShapes == << [nd |-> 2, hm |-> TRUE], [nd |-> 2, hm |-> FALSE],
                 [nd |-> 1, hm |-> TRUE], [nd |-> 1, hm |-> FALSE] >>

\* the groups of the match at p with shape sh, and where it ends
TimeGroups(t, p, sh) ==
    One({[hours    |-> ParseInt(Slice(t, p, sh.nd)),
          hasMin   |-> sh.hm,
          minutes  |-> IF sh.hm THEN ParseInt(Slice(t, p + sh.nd + 1, 2)) ELSE 0,
          meridian |-> tail.mer,
          end      |-> tail.end] :
            tail \in {FirstTail(t, p + sh.nd + (IF sh.hm THEN 3 ELSE 0))}})

TimeAt(t, p) ==
    One({IF ok = {} THEN Null
         ELSE One({TimeGroups(t, p, sh) : sh \in {TimeShapes[MinOf(ok)]}}) :
            ok \in {{i \in DOMAIN TimeShapes :
                        TimeShape(t, p, TimeShapes[i].nd, TimeShapes[i].hm)}}})

\* the loop over pattern.exec(text), from lastIndex: every match, left to right
RECURSIVE AllTimes(_, _)
AllTimes(t, from) ==
    One({IF ps = {} THEN <<>>
         ELSE One({<<m>> \o AllTimes(t, m.end) : m \in {TimeAt(t, MinOf(ps))}}) :
            ps \in {{p \in from..Len(t) : TimeAt(t, p) # Null}}})

\* the body of the loop: which matches are pushed on times
IsTimeCandidateAnyNumber(m) == m.hours <= 23

IsTimeCandidate(m) == m.hours <= 23 /\ (m.meridian # "" \/ m.hasMin)

ScanTimes(t) == SelectSeq(AllTimes(t, 1), IsTimeCandidate)

HasMeridian(m) == m.meridian # ""

parseTime(t) ==
    One({IF keywordMatch # Null
         THEN normalizeTime(keywordMatch.hours, keywordMatch.minutes, keywordMatch.meridian)
         ELSE IF times = <<>> THEN Null
         ELSE IF withMeridian # <<>>
         THEN normalizeTime(withMeridian[1].hours, withMeridian[1].minutes,
                            withMeridian[1].meridian)
         ELSE normalizeTime(times[1].hours, times[1].minutes, times[1].meridian) :
            keywordMatch \in {KeywordMatch(t)}, times \in {ScanTimes(t)},
            withMeridian \in {SelectSeq(ScanTimes(t), HasMeridian)}})

\* the Date object parseDateTimeFromText ends with: the date, the time layered on it
LocalDateTime(date, time) ==
    IF time # Null THEN SetHours(date, time.hours, time.minutes) ELSE AtMidnight(date)

parseDateTimeFromText(t, now, tz) ==
    One({IF date = Null THEN Null
         ELSE One({ToISOString(LocalDateTime(date, time), tz) : time \in {parseTime(t)}}) :
            date \in {parseDate(t, now)}})

-----------------------------------------------------------------------------
(* cleanRawText and formatAsBreadcrumb                                     *)

\* a string literal of the source as a text
Chars(s) == [i \in 1..Len(s) |-> SubSeq(s, i, i)]

\* the k-th smallest element of a set of numbers
Nth(S, k) == CHOOSE p \in S : Cardinality({q \in S : q < p}) = k - 1

\* the elements of s at the positions I, in order
SubseqAt(s, I) == [k \in 1..Cardinality(I) |-> s[Nth(I, k)]]

\* text.split("\n")
SplitLines(t) ==
    One({[i \in 1..(Cardinality(nl) + 1) |->
              SubSeq(t, IF i = 1 THEN 1 ELSE Nth(nl, i - 1) + 1,
                        IF i = Cardinality(nl) + 1 THEN Len(t) ELSE Nth(nl, i) - 1)] :
            nl \in {{p \in DOMAIN t : t[p] = "\n"}}})

\* String.prototype.trim
Trim(s) ==
    One({IF ink = {} THEN <<>> ELSE SubSeq(s, MinOf(ink), MaxOf(ink)) :
            ink \in {{p \in DOMAIN s : ~IsSpace(s[p])}}})

\* the junkPatterns of the form /^literal$/i
JunkWords == {"skip to content", "courses", "groups", "resources", "more", "home",
              "grades", "start attempt", "english", "change language", "support",
              "privacy policy", "terms of use", "assignment", "my document",
              "assignmentmy document"}

\* /^assignment\s*my document$/i
IsAssignmentMyDocument(t) ==
    /\ LitAt(t, 1, Chars("assignment"))
    /\ LitAt(t, EndOfSpaces(t, 11), Chars("my document"))
    /\ EndOfSpaces(t, 11) + 11 = Len(t) + 1

\* some pattern of junkPatterns matches the trimmed line
IsJunk(t) ==
    \/ t # <<>> /\ \A p \in DOMAIN t : t[p] = "!"
    \/ \E w \in JunkWords : ToLower(t) = Chars(w)
    \/ t # <<>> /\ \A p \in DOMAIN t : IsDigit(t[p])
    \/ LitAt(t, 1, Chars("powerschool"))
    \/ \E p \in DOMAIN t :
          t[p] = "©" /\ \A k \in 0..3 : IsDigit(At(t, EndOfSpaces(t, p + 1) + k))
    \/ IsAssignmentMyDocument(t)

\* the filter that gives cleaned: the line is kept
KeepLine(line) == One({t # <<>> /\ ~IsJunk(t) : t \in {Trim(line)}})

\* the filter that gives deduped: consecutive lines equal after trimming become one
Deduped(cleaned) ==
    SubseqAt(cleaned, {i \in DOMAIN cleaned : i = 1 \/ Trim(cleaned[i]) # Trim(cleaned[i - 1])})

\* [a-z]* from p, taking all there is: the position after the run
RECURSIVE EndOfLower(_, _)
EndOfLower(t, p) == IF At(t, p) \in LowerSet THEN EndOfLower(t, p + 1) ELSE p

\* /^[A-Z][a-z]+\s+[A-Z][a-z]+$/ with the first word ending before e
IsPersonNameFrom(t, e) ==
    /\ e > 2
    /\ One({/\ u > e
            /\ At(t, u) \in UpperSet
            /\ EndOfLower(t, u + 1) > u + 1
            /\ EndOfLower(t, u + 1) = Len(t) + 1 : u \in {EndOfSpaces(t, e)}})

\* the line is never taken for a person's name
IsPersonNameNever(t) == FALSE

\* the test that skips a line that looks like a person's name
IsPersonName(t) ==
    /\ At(t, 1) \in UpperSet
    /\ One({IsPersonNameFrom(t, e) : e \in {EndOfLower(t, 2)}})

\* /section|period|class|block/i
IsCourseLine(t) ==
    \E p \in DOMAIN t : \E w \in {"section", "period", "class", "block"} : LitAt(t, p, Chars(w))

\* /^unit\s+\d+/i and /^week\s+\d+/i
IsNumberedLine(t, w) ==
    /\ LitAt(t, 1, Chars(w))
    /\ EndOfSpaces(t, Len(w) + 1) > Len(w) + 1
    /\ IsDigit(At(t, EndOfSpaces(t, Len(w) + 1)))

\* /^(monday|tuesday|wednesday|thursday|friday|saturday|sunday)$/i
IsWeekdayLine(t) ==
    \E w \in {"monday", "tuesday", "wednesday", "thursday", "friday", "saturday", "sunday"} :
        ToLower(t) = Chars(w)

\* one of the four hierarchy patterns matches
IsHierarchyLine(t) ==
    IsCourseLine(t) \/ IsNumberedLine(t, "unit") \/ IsNumberedLine(t, "week") \/ IsWeekdayLine(t)

\* one turn of the loop of formatAsBreadcrumb on the trimmed line; acc holds its locals
BreadcrumbStep(acc, t) ==
    IF IsPersonName(t) THEN acc
    ELSE IF ~acc.foundAssignment /\ IsHierarchyLine(t)
    THEN [acc EXCEPT !.hierarchy = Append(@, t)]
    ELSE IF ~acc.foundAssignment /\ acc.hierarchy # <<>>
    THEN [acc EXCEPT !.hierarchy = Append(@, t), !.foundAssignment = TRUE]
    ELSE [acc EXCEPT !.details = Append(@, t)]

RECURSIVE BreadcrumbLoop(_, _, _)
BreadcrumbLoop(acc, lines, i) ==
    IF i > Len(lines) THEN acc
    ELSE One({BreadcrumbLoop(a, lines, i + 1) :
                 a \in {One({BreadcrumbStep(acc, t) : t \in {Trim(lines[i])}})}})

\* the locals hierarchy, details and foundAssignment when the loop ends
Breadcrumb(lines) ==
    BreadcrumbLoop([hierarchy |-> <<>>, details |-> <<>>, foundAssignment |-> FALSE], lines, 1)

\* the output built from the locals
BreadcrumbOutput(acc) ==
    Trim(Join((IF acc.hierarchy # <<>> THEN <<Join(acc.hierarchy, Chars(" > "))>> ELSE <<>>)
              \o (IF acc.details # <<>> THEN << <<>> >> \o acc.details ELSE <<>>),
              <<"\n">>))

formatAsBreadcrumb(lines) ==
    IF Len(lines) < 3 THEN Trim(Join(lines, <<"\n">>))
    ELSE One({BreadcrumbOutput(acc) : acc \in {Breadcrumb(lines)}})

cleanRawText(t) ==
    One({formatAsBreadcrumb(deduped) :
            deduped \in {Deduped(SelectSeq(SplitLines(t), KeepLine))}})

-----------------------------------------------------------------------------
(* The document as the content script reads it through the DOM.  doc.nodes *)
(* lists the elements in document order, each [tag, parent, html, display, *)
(* visibility, opacity, own]: parent is the index of the parent element (0 *)
(* for the root element), html tells an HTMLElement from other elements,   *)
(* the three style fields are the computed style, own is the text of a     *)
(* leaf.  doc.body is the index of document.body, doc.title document.title.*)

\* n is a descendant of root; root 0 stands for the document
RECURSIVE IsDescendant(_, _)
IsDescendant(n, root) ==
    IF n = 0 THEN FALSE
    ELSE doc.nodes[n].parent = root \/ IsDescendant(doc.nodes[n].parent, root)

\* the element takes part in the rendering of its parent's text
IsRendered(n) == doc.nodes[n].display # "none" /\ doc.nodes[n].visibility # "hidden"

NonEmpty(t) == t # <<>>

\* el.innerText: the text of a leaf, the rendered children's texts line by line
RECURSIVE InnerText(_)
InnerText(el) ==
    One({IF cs = {} THEN doc.nodes[el].own
         ELSE Join(SelectSeq([k \in 1..Cardinality(cs) |->
                                 IF IsRendered(Nth(cs, k)) THEN InnerText(Nth(cs, k)) ELSE <<>>],
                             NonEmpty), <<"\n">>) :
            cs \in {{c \in DOMAIN doc.nodes : doc.nodes[c].parent = el}}})

\* el.innerText?.trim() of an element or of null (0); <<>> is the falsy result
TrimmedText(el) == IF el = 0 THEN <<>> ELSE Trim(InnerText(el))

\* root.querySelector(tags): the first match in document order, 0 for null
QuerySelector(root, tags) ==
    One({IF ms = {} THEN 0 ELSE MinOf(ms) :
            ms \in {{n \in DOMAIN doc.nodes :
                        doc.nodes[n].tag \in tags /\ IsDescendant(n, root)}}})

\* el.previousElementSibling, 0 for null
PreviousElementSibling(el) ==
    One({IF sibs = {} THEN 0 ELSE MaxOf(sibs) :
            sibs \in {{c \in 1..(el - 1) : doc.nodes[c].parent = doc.nodes[el].parent}}})

-----------------------------------------------------------------------------
(* findCandidateElements, isVisible, getTitle, scrapeTasks                 *)

ExcludedTags == {"script", "style", "noscript", "template", "svg", "path"}

MinTextLength == 8

MaxTextLength == 1000

\* isVisible without the look at the computed style
isVisibleAnyStyle(el) == doc.nodes[el].html /\ doc.nodes[el].tag \notin ExcludedTags

isVisible(el) ==
    /\ doc.nodes[el].html
    /\ doc.nodes[el].tag \notin ExcludedTags
    /\ doc.nodes[el].display # "none"
    /\ doc.nodes[el].visibility # "hidden"
    /\ doc.nodes[el].opacity # "0"

\* one turn of the loop of findCandidateElements; acc holds seen and candidates
CandidateStep(acc, el) ==
    IF ~isVisible(el) THEN acc
    ELSE One({IF t = <<>> \/ Len(t) < MinTextLength \/ Len(t) > MaxTextLength THEN acc
              ELSE IF t \in acc.seen THEN acc
              ELSE [seen       |-> acc.seen \cup {t},
                    candidates |-> Append(acc.candidates, [el |-> el, text |-> t])] :
                 t \in {Trim(InnerText(el))}})

RECURSIVE CandidateLoop(_, _)
CandidateLoop(acc, el) ==
    IF el > Len(doc.nodes) THEN acc
    ELSE One({CandidateLoop(a, el + 1) : a \in {CandidateStep(acc, el)}})

findCandidateElements == CandidateLoop([seen |-> {}, candidates |-> <<>>], 1).candidates

DueKeywords == {"due", "overdue", "deadline", "open until", "available until", "closes at",
                "closes", "closing", "submit by", "turn in by", "due by", "due on", "due date"}

\* DUE_KEYWORDS.test(text)
DueKeywordsTest(t) ==
    \E p \in DOMAIN t :
        /\ WordBoundary(t, p)
        /\ \E w \in DueKeywords : LitAt(t, p, Chars(w)) /\ WordBoundary(t, p + Len(w))

Headings == {"h1", "h2", "h3", "h4"}

\* the loop of getTitle from cur on, and the return after it
RECURSIVE TitleWalk(_)
TitleWalk(cur) ==
    IF cur = 0 \/ cur = doc.body
    THEN IF doc.title # <<>> THEN doc.title ELSE Chars("Captured task")
    ELSE One({IF heading # <<>> THEN heading
              ELSE IF prev # 0 /\ doc.nodes[prev].tag \in Headings /\ TrimmedText(prev) # <<>>
              THEN TrimmedText(prev)
              ELSE TitleWalk(doc.nodes[cur].parent) :
                 heading \in {TrimmedText(QuerySelector(cur, Headings))},
                 prev \in {PreviousElementSibling(cur)}})

\* getTitle without the look at the document's first h1 and h2
getTitleFromElement(el) == TitleWalk(el)

getTitle(el) ==
    One({IF h1 # <<>> THEN h1 ELSE IF h2 # <<>> THEN h2 ELSE TitleWalk(el) :
            h1 \in {TrimmedText(QuerySelector(0, {"h1"}))},
            h2 \in {TrimmedText(QuerySelector(0, {"h2"}))}})

\* a key made of the title alone
TaskKeyTitleOnly(title, parsed) == title

\* `${title}__${parsed}`
TaskKey(title, parsed) == title \o <<"_", "_">> \o parsed

\* the record pushed on results
ScrapedTask(title, parsed, t) == [title |-> title, dueDate |-> parsed, raw |-> cleanRawText(t)]

\* one turn of the loop of scrapeTasks on the candidate c, whose title and parsed date
\* are given; acc holds seen and results
ScrapeStep(acc, c, title, parsed) ==
    IF ~DueKeywordsTest(c.text) \/ parsed = Null THEN acc
    ELSE IF TaskKey(title, parsed) \in acc.seen THEN acc
    ELSE [seen    |-> acc.seen \cup {TaskKey(title, parsed)},
          results |-> Append(acc.results, ScrapedTask(title, parsed, c.text))]

\* the loop of scrapeTasks over the candidates from the i-th on
RECURSIVE ScrapeLoop(_, _, _)
ScrapeLoop(acc, cands, i) ==
    IF i > Len(cands) THEN acc
    ELSE One({ScrapeLoop(a, cands, i + 1) :
                 a \in {One({ScrapeStep(acc, cands[i], title, parsed) :
                               title \in {getTitle(cands[i].el)},
                               parsed \in {IF DueKeywordsTest(cands[i].text)
                                           THEN parseDateTimeFromText(cands[i].text,
                                                                      env.now, env.tz)
                                           ELSE Null}})}})

\* scrapeTasks with the candidates that findCandidateElements returned
ScrapeCandidates(cands) == ScrapeLoop([seen |-> {}, results |-> <<>>], cands, 1).results

scrapeTasks == One({ScrapeCandidates(cands) : cands \in {findCandidateElements}})

-----------------------------------------------------------------------------
(* SAVE_TASKS: the popup's onSave, the worker's saveTasks and postTask.    *)
(* What fetch settles with is [rejected, message] when it throws, else a   *)
(* response [rejected, status, readable, text, json]: readable tells       *)
(* whether res.text() gives the text, json is Null when the body is not    *)
(* JSON.  A due date that is null is the empty text.                       *)

\* a number in decimal digits
RECURSIVE Decimal(_)
Decimal(n) ==
    IF n < 10 THEN <<DigitChars[n + 1]>>
    ELSE Decimal(n \div 10) \o <<DigitChars[(n % 10) + 1]>>

\* t.title || "Captured task" and the other defaults of saveTasks; a task of the popup
\* has neither url nor raw, so formatDescription gives ""
MergedTask(t) ==
    [title       |-> IF t.title # <<>> THEN t.title ELSE Chars("Captured task"),
     description |-> t.description,
     status      |-> "todo",
     priority    |-> "medium",
     dueDate     |-> t.dueDate,
     labels      |-> t.labels]

\* tasks.map(...)
Merged(tasks) == [i \in DOMAIN tasks |-> MergedTask(tasks[i])]

\* every response taken for a success
ResOkAlways(res) == TRUE

\* res.ok
ResOk(res) == res.status \in 200..299

safeText(res) == IF res.readable THEN res.text ELSE Chars("no body")

\* the message of the Error postTask throws on a response that is not OK
ApiError(res) == Chars("API ") \o Decimal(res.status) \o Chars(": ") \o safeText(res)

\* how postTask ends on what fetch settled with: the value it returns or the message
\* of the error it throws
PostTaskEnd(out) ==
    IF out.rejected THEN [thrown |-> TRUE, message |-> out.message]
    ELSE IF ~ResOk(out) THEN [thrown |-> TRUE, message |-> ApiError(out)]
    ELSE IF out.json = Null THEN [thrown |-> TRUE, message |-> Chars("Unexpected token <")]
    ELSE [thrown |-> FALSE, value |-> out.json]

\* the texts onSave puts in the status line when the worker has answered (the check
\* mark that starts the first one is left out)
SavedText(n) ==
    Chars("Saved ") \o Decimal(n) \o Chars(" task") \o (IF n # 1 THEN <<"s">> ELSE <<>>)
        \o <<"!">>

FailedText(resp) ==
    Chars("Failed: ") \o (IF resp # Null /\ resp.error # <<>> THEN resp.error
                          ELSE Chars("unknown error"))

-----------------------------------------------------------------------------
(* The parser's inputs: a text is a few words joined by single spaces.     *)

MaxWords == 3

DateWords == <<
    <<"d","u","e">>,
    <<"2","0","2","6","-","0","1","-","2","6">>,
    <<"2","0","2","5","-","0","2","-","2","9">>,
    <<"M","a","r"," ","5",","," ","2","0","2","7">>,
    <<"J","a","n"," ","2","6">>,
    <<"f","e","b"," ","2","9">>,
    <<"T","o","m","o","r","r","o","w">> >>

TimeWords == <<
    <<"J","a","n"," ","2","6">>,
    <<"a","t">>,
    <<"5">>,
    <<"1","7",":","0","0">>,
    <<"2","3",":","7","5">>,
    <<"P","M">>,
    <<"3","0">>,
    <<"S","a","t">> >>

Words(v) == IF v = "date" THEN DateWords ELSE TimeWords

WordSeqs(v) == UNION {[1..n -> DOMAIN Words(v)] : n \in 1..MaxWords}

\* the text the words spell
TextOf(fs, v) == Join([i \in DOMAIN fs |-> Words(v)[fs[i]]], <<" ">>)

\* clocks and time zones (getTimezoneOffset(): minutes to add to reach UTC)
DateEnvs == {
    [now |-> [y |-> 2026, m |-> 2,  d |-> 1,  tod |-> 600], tz |-> 300],
    [now |-> [y |-> 2025, m |-> 11, d |-> 1,  tod |-> 600], tz |-> 0],
    [now |-> [y |-> 2026, m |-> 0,  d |-> 26, tod |-> 600], tz |-> -540],
    [now |-> [y |-> 2027, m |-> 5,  d |-> 1,  tod |-> 0],   tz |-> 0] }

TimeEnvs == {
    [now |-> [y |-> 2025, m |-> 11, d |-> 1,  tod |-> 600], tz |-> 300] }

ParseInit(v, envs) ==
    /\ vocab = v
    /\ frags \in WordSeqs(v)
    /\ text = TextOf(frags, v)
    /\ env \in envs
    /\ pc = "input"
    /\ dateOut = Null
    /\ timeOut = Null
    /\ localOut = Null
    /\ dueOut = Null

ParseIdle ==
    /\ vocab = "none"
    /\ frags = <<>>
    /\ text = <<>>
    /\ env = Null
    /\ pc = "idle"
    /\ dateOut = Null
    /\ timeOut = Null
    /\ localOut = Null
    /\ dueOut = Null

NormIdle == normIn = Null /\ normOut = Null

CleanIdle ==
    /\ cleanLines = <<>>
    /\ cleanIn = <<>>
    /\ cleanPc = "idle"
    /\ cleanLocals = Null
    /\ cleanOut = Null

DomIdle ==
    /\ doc = Null
    /\ scrapePc = "idle"
    /\ candidates = <<>>
    /\ results = <<>>
    /\ titleEl = 0
    /\ titleOut = Null

SaveIdle ==
    /\ saveList = <<>>
    /\ originReady = FALSE
    /\ saveMsg = Null
    /\ saveResp = Null
    /\ workerPc = "idle"
    /\ merged = <<>>
    /\ saveIdx = 0
    /\ saveResults = <<>>
    /\ posted = <<>>
    /\ fetched = <<>>
    /\ popupPc = "idle"
    /\ statusEl = [text |-> <<>>, type |-> "hidden"]
    /\ hideTimer = FALSE

EnvIdle ==
    /\ currentOrigin = <<>>
    /\ stored = <<>>
    /\ storageQ = <<>>
    /\ storageOut = <<>>
    /\ envMsgs = <<>>
    /\ envSent = 0
    /\ lastMode = <<>>
    /\ envResp = Null

CaptureIdle ==
    /\ injected = FALSE
    /\ requestScrape = FALSE
    /\ loadTimer = FALSE
    /\ tabMsgs = <<>>
    /\ getLast = FALSE
    /\ lastScrapedTasks = <<>>
    /\ lastScrape = [done |-> FALSE, tasks |-> <<>>]
    /\ lastAnswer = Null

\* one call of parseDateTimeFromText(text)
ParseDateTime ==
    /\ pc = "input"
    /\ pc' = "done"
    /\ dateOut' = parseDate(text, env.now)
    /\ timeOut' = IF dateOut' = Null THEN Null ELSE parseTime(text)
    /\ localOut' = IF dateOut' = Null THEN Null ELSE LocalDateTime(dateOut', timeOut')
    /\ dueOut' = IF dateOut' = Null THEN Null ELSE ToISOString(localOut', env.tz)
    /\ UNCHANGED <<frags, vocab, text, env, normVars, cleanVars, domVars, saveVars, envVars, captureVars>>

\* one call of parseTime(text) alone
ParseTimeOnly ==
    /\ pc = "input"
    /\ pc' = "time"
    /\ timeOut' = parseTime(text)
    /\ UNCHANGED <<frags, vocab, text, env, dateOut, localOut, dueOut, normVars, cleanVars, domVars, saveVars, envVars, captureVars>>

DateInit == ParseInit("date", DateEnvs) /\ NormIdle /\ CleanIdle /\ DomIdle /\ SaveIdle /\ EnvIdle /\ CaptureIdle

DateNext == ParseDateTime

SpecDate == DateInit /\ [][DateNext]_vars

TimeInit == ParseInit("time", TimeEnvs) /\ NormIdle /\ CleanIdle /\ DomIdle /\ SaveIdle /\ EnvIdle /\ CaptureIdle

TimeNext == ParseDateTime \/ ParseTimeOnly

SpecTime == TimeInit /\ [][TimeNext]_vars

\* the arguments normalizeTime can get: one or two digits, two digits, a meridian or none
NormInit ==
    /\ ParseIdle
    /\ CleanIdle
    /\ DomIdle
    /\ SaveIdle
    /\ EnvIdle
    /\ CaptureIdle
    /\ normIn \in [hours : 0..99, minutes : {0, 5, 30, 59, 75}, meridian : {"am", "pm", ""}]
    /\ normOut = Null

\* one call of normalizeTime(hours, minutes, meridian)
NormalizeTime ==
    /\ normOut = Null
    /\ normOut' = normalizeTime(normIn.hours, normIn.minutes, normIn.meridian)
    /\ UNCHANGED <<parseVars, normIn, cleanVars, domVars, saveVars, envVars, captureVars>>

NormNext == NormalizeTime

SpecNorm == NormInit /\ [][NormNext]_vars

-----------------------------------------------------------------------------
(* cleanRawText's inputs: a text is a few lines joined by line feeds.      *)

MaxLines == 4

LineWords == <<Chars("Section B"), Chars("Week 3"), Chars("Essay Draft"), Chars("Due Jan 26"),
               Chars("35"), Chars(" Due Jan 26  "), Chars("Monday"), Chars(""),
               Chars("Read ch. 2")>>

\* the lines of the worked example of text normalization
ExampleLines == <<1, 2, 3, 4, 4, 5>>

LineSeqs == UNION {[1..n -> DOMAIN LineWords] : n \in 1..MaxLines} \cup {ExampleLines}

CleanInit ==
    /\ ParseIdle
    /\ NormIdle
    /\ DomIdle
    /\ SaveIdle
    /\ EnvIdle
    /\ CaptureIdle
    /\ cleanLines \in LineSeqs
    /\ cleanIn = Join([i \in DOMAIN cleanLines |-> LineWords[cleanLines[i]]], <<"\n">>)
    /\ cleanPc = "input"
    /\ cleanLocals = Null
    /\ cleanOut = Null

\* one call of cleanRawText(text); cleanLocals keeps deduped and, when formatAsBreadcrumb
\* ran its loop, the loop's locals
CleanRawText ==
    /\ cleanPc = "input"
    /\ cleanPc' = "done"
    /\ cleanOut' = cleanRawText(cleanIn)
    /\ \E deduped \in {Deduped(SelectSeq(SplitLines(cleanIn), KeepLine))} :
          cleanLocals' = [deduped |-> deduped,
                          loop    |-> IF Len(deduped) < 3 THEN Null ELSE Breadcrumb(deduped)]
    /\ UNCHANGED <<cleanLines, cleanIn, parseVars, normVars, domVars, saveVars, envVars, captureVars>>

CleanNext == CleanRawText

SpecClean == CleanInit /\ [][CleanNext]_vars

-----------------------------------------------------------------------------
(* Documents.                                                              *)

\* an element that is shown
Node(tag, parent, own) ==
    [tag |-> tag, parent |-> parent, html |-> TRUE, display |-> "block",
     visibility |-> "visible", opacity |-> "1", own |-> own]

\* a text of n characters that starts with a due keyword and holds no date
LongText(n) == [i \in 1..n |-> IF i <= 4 THEN Chars("due ")[i] ELSE "x"]

\* the last leaf of a scraped document: shown with one text or another, or not to be
\* collected (not displayed, a script, not an HTMLElement, hidden, transparent)
LastLeaves ==
    {Node("p", 7, t) : t \in {Chars("Due Jan 26"), Chars("Due Jan 27"), Chars("Read ch. 2")}}
    \cup {[Node("p", 7, Chars("Due Jan 27")) EXCEPT !.display = "none"],
          [Node("script", 7, Chars("Due Jan 27")) EXCEPT !.display = "none"],
          [Node("text", 7, Chars("Due Jan 27")) EXCEPT !.html = FALSE],
          [Node("p", 7, Chars("Due Jan 27")) EXCEPT !.visibility = "hidden"],
          [Node("p", 7, Chars("Due Jan 27")) EXCEPT !.opacity = "0"]}

\* a last leaf at the upper limit of the length of a block, and one past it
LongLeaves == {Node("p", 7, LongText(MaxTextLength)), Node("p", 7, LongText(MaxTextLength + 1))}

\* two sections, each a heading and leaves, under a page heading that is there or not
SectionsDoc(pageHeading, tA, t8, tB, last) ==
    [title |-> Chars("Page"), body |-> 2,
     nodes |-> <<Node("html", 0, <<>>), Node("body", 1, <<>>), pageHeading,
                 Node("div", 2, <<>>), Node("h3", 4, Chars("Quiz")), Node("p", 4, tA),
                 Node("div", 2, <<>>), Node("h3", 7, t8), Node("p", 7, tB), last>>]

ScrapeDocs ==
    {SectionsDoc(pageHeading, tA, t8, tB, last) :
        pageHeading \in {Node("h1", 2, Chars("Essay")), Node("h3", 2, <<>>)},
        tA \in {Chars("Due Jan 26"), Chars("due: 2026-01-26"), Chars("Due 5pm"),
                Chars("Due 5 pm")},
        t8 \in {Chars("Quiz"), Chars("Lab")},
        tB \in {Chars("Due Jan 26"), Chars("Due Jan 27"), Chars(" Due Jan 26\n")},
        last \in LastLeaves}
    \cup {SectionsDoc(Node("h3", 2, <<>>), Chars("Due Jan 26"), Chars("Quiz"),
                      Chars(" Due Jan 26\n"), last) : last \in LongLeaves}

ScrapeEnvs == {[now |-> [y |-> 2025, m |-> 11, d |-> 1, tod |-> 600], tz |-> 0]}

\* the slots of a document for getTitle: headings of some level, empty or not, or no headings
TitleSlot(tags, texts) == {[tag |-> g, own |-> t] : g \in tags, t \in texts}

TitleDocs ==
    {[title |-> title, body |-> 2,
      nodes |-> <<Node("html", 0, <<>>), Node("body", 1, <<>>), Node(a.tag, 2, a.own),
                  Node("div", 2, <<>>), Node(b.tag, 4, b.own), Node("div", 4, <<>>),
                  Node(c.tag, 6, c.own), Node("p", 6, Chars("Due Jan 26")),
                  Node(d.tag, 4, d.own)>>] :
        title \in {<<>>, Chars("Page")},
        a \in TitleSlot({"h1", "h2", "h3", "p"}, {<<>>, Chars("Essay")}),
        b \in TitleSlot({"h1", "h3", "p"}, {<<>>, Chars("Quiz")}),
        c \in TitleSlot({"h4", "p"}, {<<>>, Chars("Lab")}),
        d \in TitleSlot({"h2", "h3"}, {Chars("HW")})}

ScrapeInit ==
    /\ doc \in ScrapeDocs
    /\ scrapePc = "loaded"
    /\ candidates = <<>>
    /\ results = <<>>
    /\ titleEl = 0
    /\ titleOut = Null
    /\ vocab = "none"
    /\ frags = <<>>
    /\ text = <<>>
    /\ env \in ScrapeEnvs
    /\ pc = "idle"
    /\ dateOut = Null
    /\ timeOut = Null
    /\ localOut = Null
    /\ dueOut = Null
    /\ NormIdle
    /\ CleanIdle
    /\ SaveIdle
    /\ EnvIdle
    /\ CaptureIdle

\* one call of scrapeTasks(); candidates keeps what findCandidateElements returned,
\* each of which the loop tests against DUE_KEYWORDS first
ScrapeTasks ==
    /\ scrapePc = "loaded"
    /\ scrapePc' = "scraped"
    /\ candidates' = findCandidateElements
    /\ results' = ScrapeCandidates(candidates')
    /\ UNCHANGED <<doc, titleEl, titleOut, parseVars, normVars, cleanVars, saveVars, envVars, captureVars>>

ScrapeNext == ScrapeTasks

SpecScrape == ScrapeInit /\ [][ScrapeNext]_vars

TitleInit ==
    /\ doc \in TitleDocs
    /\ scrapePc = "idle"
    /\ candidates = <<>>
    /\ results = <<>>
    /\ titleEl = 0
    /\ titleOut = Null
    /\ ParseIdle
    /\ NormIdle
    /\ CleanIdle
    /\ SaveIdle
    /\ EnvIdle
    /\ CaptureIdle

\* one call of getTitle(el)
GetTitle ==
    /\ titleOut = Null
    /\ \E el \in DOMAIN doc.nodes :
          /\ titleEl' = el
          /\ titleOut' = getTitle(el)
    /\ UNCHANGED <<doc, scrapePc, candidates, results, parseVars, normVars, cleanVars,
                   saveVars, envVars, captureVars>>

TitleNext == GetTitle

SpecTitle == TitleInit /\ [][TitleNext]_vars

-----------------------------------------------------------------------------
(* The save path: one click on Save in the popup, up to its status line.   *)

MaxTasks == 3

\* the tasks of the popup's list: edited fields, a title left empty
PopupTasks ==
    {[title |-> Chars("Essay"), dueDate |-> Chars("2026-01-26T00:00:00.000Z"),
      labels |-> <<Chars("capture"), Chars("web")>>, description |-> Chars("Due Jan 26")],
     [title |-> <<>>, dueDate |-> <<>>, labels |-> <<>>, description |-> <<>>]}

TaskLists == UNION {[1..n -> PopupTasks] : n \in 0..MaxTasks}

\* what fetch can settle with for the k-th POST
FetchOutcomes(k) ==
    {[rejected |-> TRUE, message |-> Chars("Failed to fetch")],
     [rejected |-> FALSE, status |-> 201, readable |-> TRUE, text |-> Chars("{}"),
      json |-> [id |-> k]],
     [rejected |-> FALSE, status |-> 200, readable |-> TRUE, text |-> Chars("<html>"),
      json |-> Null],
     [rejected |-> FALSE, status |-> 401, readable |-> TRUE, text |-> Chars("Unauthorized"),
      json |-> Null],
     [rejected |-> FALSE, status |-> 500, readable |-> FALSE, text |-> <<>>, json |-> Null]}

SaveInit ==
    /\ ParseIdle
    /\ NormIdle
    /\ CleanIdle
    /\ DomIdle
    /\ EnvIdle
    /\ CaptureIdle
    /\ saveList \in TaskLists
    /\ originReady = FALSE
    /\ saveMsg = Null
    /\ saveResp = Null
    /\ workerPc = "idle"
    /\ merged = <<>>
    /\ saveIdx = 0
    /\ saveResults = <<>>
    /\ posted = <<>>
    /\ fetched = <<>>
    /\ popupPc = "ready"
    /\ statusEl = [text |-> <<>>, type |-> "hidden"]
    /\ hideTimer = FALSE

\* onSave up to its await: the status line, the message to the worker
OnSave ==
    /\ popupPc = "ready"
    /\ popupPc' = "waiting"
    /\ statusEl' = [text |-> Chars("Saving..."), type |-> "info"]
    /\ saveMsg' = [type |-> "SAVE_TASKS", tasks |-> saveList]
    /\ UNCHANGED <<saveList, originReady, saveResp, workerPc, merged, saveIdx, saveResults,
                   posted, fetched, hideTimer,
                   parseVars, normVars, cleanVars, domVars,
                   envVars, captureVars>>

\* the worker's listener on SAVE_TASKS: saveTasks up to its first await, which is the
\* fetch of the first task when originReady has resolved, else originReady; with no
\* task saveTasks returns at once and the worker answers
OnSaveTasks ==
    /\ saveMsg # Null
    /\ workerPc = "idle"
    /\ saveMsg' = Null
    /\ merged' = Merged(saveMsg.tasks)
    /\ IF merged' = <<>>
       THEN /\ workerPc' = "replied"
            /\ saveResp' = [ok |-> TRUE, results |-> <<>>]
            /\ UNCHANGED <<saveIdx, posted>>
       ELSE /\ saveIdx' = 1
            /\ saveResp' = saveResp
            /\ IF originReady
               THEN workerPc' = "fetching" /\ posted' = Append(posted, merged'[1])
               ELSE workerPc' = "awaitOrigin" /\ posted' = posted
    /\ UNCHANGED <<saveList, originReady, saveResults, fetched, popupPc, statusEl, hideTimer,
                   parseVars, normVars, cleanVars, domVars,
                   envVars, captureVars>>

\* the storage callback of loadOriginFromStorage resolves originReady; a postTask that
\* awaits it goes on to its fetch
OriginLoaded ==
    /\ ~originReady
    /\ originReady' = TRUE
    /\ IF workerPc = "awaitOrigin"
       THEN workerPc' = "fetching" /\ posted' = Append(posted, merged[saveIdx])
       ELSE UNCHANGED <<workerPc, posted>>
    /\ UNCHANGED <<saveList, saveMsg, saveResp, merged, saveIdx, saveResults, fetched,
                   popupPc, statusEl, hideTimer,
                   parseVars, normVars, cleanVars, domVars,
                   envVars, captureVars>>

\* the fetch of postTask settles: postTask throws and the worker answers ok: false, or
\* it returns, the result is pushed, and the loop posts the next task or ends and the
\* worker answers ok: true
FetchSettles ==
    /\ workerPc = "fetching"
    /\ \E out \in FetchOutcomes(Len(posted)) :
          /\ fetched' = Append(fetched, out)
          /\ \E end \in {PostTaskEnd(out)} :
                IF end.thrown
                THEN /\ workerPc' = "replied"
                     /\ saveResp' = [ok |-> FALSE, error |-> end.message]
                     /\ UNCHANGED <<saveIdx, saveResults, posted>>
                ELSE /\ saveResults' = Append(saveResults, end.value)
                     /\ IF saveIdx < Len(merged)
                        THEN /\ saveIdx' = saveIdx + 1
                             /\ posted' = Append(posted, merged[saveIdx + 1])
                             /\ UNCHANGED <<workerPc, saveResp>>
                        ELSE /\ workerPc' = "replied"
                             /\ saveResp' = [ok |-> TRUE, results |-> saveResults']
                             /\ UNCHANGED <<saveIdx, posted>>
    /\ UNCHANGED <<saveList, originReady, saveMsg, merged, popupPc, statusEl, hideTimer,
                   parseVars, normVars, cleanVars, domVars,
                   envVars, captureVars>>

\* onSave after its await: the worker's answer has come
OnSaveResponse ==
    /\ popupPc = "waiting"
    /\ saveResp # Null
    /\ popupPc' = "done"
    /\ IF ~saveResp.ok
       THEN statusEl' = [text |-> FailedText(saveResp), type |-> "error"] /\ hideTimer' = hideTimer
       ELSE statusEl' = [text |-> SavedText(Len(saveList)), type |-> "success"]
            /\ hideTimer' = TRUE
    /\ UNCHANGED <<saveList, originReady, saveMsg, saveResp, workerPc, merged, saveIdx,
                   saveResults, posted, fetched,
                   parseVars, normVars, cleanVars, domVars,
                   envVars, captureVars>>

\* the timer set after a save: hideStatus
HideStatus ==
    /\ hideTimer
    /\ hideTimer' = FALSE
    /\ statusEl' = [text |-> <<>>, type |-> "hidden"]
    /\ UNCHANGED <<saveList, originReady, saveMsg, saveResp, workerPc, merged, saveIdx,
                   saveResults, posted, fetched, popupPc,
                   parseVars, normVars, cleanVars, domVars,
                   envVars, captureVars>>

SaveNext == OnSave \/ OnSaveTasks \/ OriginLoaded \/ FetchSettles \/ OnSaveResponse \/ HideStatus

SpecSave == SaveInit /\ [][SaveNext]_vars

-----------------------------------------------------------------------------
(* The API target: GET_ENV and SET_ENV, chrome.storage.local and its change *)
(* events.  chrome.storage.local carries out its requests in the order     *)
(* they were made and reports a change only when a set changes the value;  *)
(* its get results and change events reach the worker in the order they    *)
(* were produced.  Messages from the popup reach the worker in the order   *)
(* sent, in any order with respect to what storage sends.                  *)

PROD_ORIGIN == Chars("https://polychrome.appwrite.network")

DEV_ORIGIN == Chars("http://localhost:3000")

\* modeOrUrl.startsWith(prefix)
StartsWith(t, prefix) == Len(t) >= Len(prefix) /\ SubSeq(t, 1, Len(prefix)) = prefix

resolveOrigin(modeOrUrl) ==
    IF modeOrUrl = <<>> \/ modeOrUrl = Chars("prod") THEN PROD_ORIGIN
    ELSE IF modeOrUrl = Chars("dev") THEN DEV_ORIGIN
    ELSE IF StartsWith(modeOrUrl, Chars("http")) THEN modeOrUrl
    ELSE PROD_ORIGIN

resolveMode(origin) ==
    IF origin = DEV_ORIGIN THEN Chars("dev")
    ELSE IF origin = PROD_ORIGIN THEN Chars("prod")
    ELSE Chars("custom")

\* the requests to chrome.storage.local
StorageGet == [op |-> "get", value |-> <<>>]

StorageSet(v) == [op |-> "set", value |-> v]

\* setOrigin(modeOrUrl): currentOrigin and the set request it makes
setOrigin(modeOrUrl) ==
    /\ currentOrigin' = resolveOrigin(modeOrUrl)
    /\ storageQ' = Append(storageQ, StorageSet(modeOrUrl))

\* the answer to GET_ENV
GetEnvResponse == [origin |-> currentOrigin, mode |-> resolveMode(currentOrigin)]

MaxSetEnv == 1

\* the modes the popup's selector sends, and a custom URL
EnvModes == {Chars("prod"), Chars("dev"), Chars("http://localhost:8080")}

\* what storage holds when the worker starts: nothing, or a mode stored earlier
StoredModes == {<<>>} \cup EnvModes

\* the worker has started: currentOrigin is PROD_ORIGIN and loadOriginFromStorage has
\* made its get request
EnvInit ==
    /\ ParseIdle
    /\ NormIdle
    /\ CleanIdle
    /\ DomIdle
    /\ SaveIdle
    /\ CaptureIdle
    /\ currentOrigin = PROD_ORIGIN
    /\ stored \in StoredModes
    /\ storageQ = <<StorageGet>>
    /\ storageOut = <<>>
    /\ envMsgs = <<>>
    /\ envSent = 0
    /\ lastMode = <<>>
    /\ envResp = Null

\* popup: onEnvChange sends SET_ENV with the mode selected
OnEnvChange ==
    /\ envSent < MaxSetEnv
    /\ \E m \in EnvModes :
        /\ envMsgs' = Append(envMsgs, [type |-> "SET_ENV", mode |-> m])
        /\ lastMode' = m
    /\ envSent' = envSent + 1
    /\ UNCHANGED <<currentOrigin, stored, storageQ, storageOut, envResp,
                   parseVars, normVars, cleanVars, domVars, saveVars, captureVars>>

\* popup: loadEnv sends GET_ENV
LoadEnv ==
    /\ \A i \in DOMAIN envMsgs : envMsgs[i].type # "GET_ENV"
    /\ envMsgs' = Append(envMsgs, [type |-> "GET_ENV", mode |-> <<>>])
    /\ UNCHANGED <<currentOrigin, stored, storageQ, storageOut, envSent, lastMode, envResp,
                   parseVars, normVars, cleanVars, domVars, saveVars, captureVars>>

\* worker: the GET_ENV branch of the message listener
OnGetEnv ==
    /\ envMsgs # <<>>
    /\ Head(envMsgs).type = "GET_ENV"
    /\ envMsgs' = Tail(envMsgs)
    /\ envResp' = GetEnvResponse
    /\ UNCHANGED <<currentOrigin, stored, storageQ, storageOut, envSent, lastMode,
                   parseVars, normVars, cleanVars, domVars, saveVars, captureVars>>

\* worker: the SET_ENV branch of the message listener
OnSetEnv ==
    /\ envMsgs # <<>>
    /\ Head(envMsgs).type = "SET_ENV"
    /\ envMsgs' = Tail(envMsgs)
    /\ setOrigin(Head(envMsgs).mode)
    /\ UNCHANGED <<stored, storageOut, envSent, lastMode, envResp,
                   parseVars, normVars, cleanVars, domVars, saveVars, captureVars>>

\* chrome.storage.local carries out its oldest request
StorageStep ==
    /\ storageQ # <<>>
    /\ storageQ' = Tail(storageQ)
    /\ IF Head(storageQ).op = "get"
       THEN /\ storageOut' = Append(storageOut, [type |-> "result", value |-> stored])
            /\ stored' = stored
       ELSE /\ stored' = Head(storageQ).value
            /\ storageOut' = IF Head(storageQ).value # stored
                             THEN Append(storageOut, [type  |-> "changed",
                                                      value |-> Head(storageQ).value])
                             ELSE storageOut
    /\ UNCHANGED <<currentOrigin, envMsgs, envSent, lastMode, envResp,
                   parseVars, normVars, cleanVars, domVars, saveVars, captureVars>>

\* worker: the callback of loadOriginFromStorage's get, which resolves originReady
OnStorageResult ==
    /\ storageOut # <<>>
    /\ Head(storageOut).type = "result"
    /\ storageOut' = Tail(storageOut)
    /\ setOrigin(IF Head(storageOut).value # <<>> THEN Head(storageOut).value ELSE Chars("prod"))
    /\ originReady' = TRUE
    /\ UNCHANGED <<stored, envMsgs, envSent, lastMode, envResp,
                   saveList, saveMsg, saveResp, workerPc, merged, saveIdx, saveResults,
                   posted, fetched, popupPc, statusEl, hideTimer,
                   parseVars, normVars, cleanVars, domVars, captureVars>>

\* worker: the chrome.storage.onChanged listener
OnStorageChanged ==
    /\ storageOut # <<>>
    /\ Head(storageOut).type = "changed"
    /\ storageOut' = Tail(storageOut)
    /\ setOrigin(Head(storageOut).value)
    /\ UNCHANGED <<stored, envMsgs, envSent, lastMode, envResp,
                   parseVars, normVars, cleanVars, domVars, saveVars, captureVars>>

EnvNext ==
    \/ OnEnvChange
    \/ LoadEnv
    \/ OnGetEnv
    \/ OnSetEnv
    \/ StorageStep
    \/ OnStorageResult
    \/ OnStorageChanged

\* every request made to storage is carried out and every message, result and event
\* that reached the worker is handled
SpecEnv ==
    /\ EnvInit
    /\ [][EnvNext]_vars
    /\ WF_vars(OnGetEnv)
    /\ WF_vars(OnSetEnv)
    /\ WF_vars(StorageStep)
    /\ WF_vars(OnStorageResult)
    /\ WF_vars(OnStorageChanged)

-----------------------------------------------------------------------------
(* The captured list: the content script's scrape on page load and on      *)
(* REQUEST_SCRAPE, the worker's lastScrapedTasks and the popup's           *)
(* GET_LAST_TASKS.  Messages from the tab reach the worker in the order    *)
(* sent, in any order with respect to the popup's.                         *)

\* the tasks of a SCRAPED_TASKS message, as the content script maps them
SentTasks(tasks, url) ==
    [i \in DOMAIN tasks |->
        [title |-> tasks[i].title, description |-> <<>>, dueDate |-> tasks[i].dueDate,
         labels |-> <<Chars("capture")>>, url |-> url, raw |-> tasks[i].raw]]

\* the worker's map of the tasks of a SCRAPED_TASKS message
StoredTasks(tasks) ==
    [i \in DOMAIN tasks |->
        [title       |-> IF tasks[i].title # <<>> THEN tasks[i].title ELSE Chars("Captured task"),
         description |-> tasks[i].description,
         dueDate     |-> tasks[i].dueDate,
         labels      |-> tasks[i].labels,
         status      |-> Chars("todo"),
         priority    |-> Chars("medium"),
         url         |-> tasks[i].url,
         raw         |-> tasks[i].raw]]

\* what the content script sends after a scrape: nothing when it found no task
AfterScrape(tasks) ==
    IF tasks # <<>> THEN Append(tabMsgs, SentTasks(tasks, doc.url)) ELSE tabMsgs

MaxInFlight == 2

\* the document d at the address url
PageAt(url, d) == [url |-> url, title |-> d.title, body |-> d.body, nodes |-> d.nodes]

\* a page with tasks, a page with one other task, a page with none
CaptureDocs ==
    {PageAt(Chars("https://lms.test/a"),
            SectionsDoc(Node("h1", 2, Chars("Essay")), Chars("Due Jan 26"), Chars("Quiz"),
                        Chars("Due Jan 27"), Node("p", 7, Chars("Read ch. 2")))),
     PageAt(Chars("https://lms.test/b"),
            SectionsDoc(Node("h1", 2, Chars("Lab")), Chars("Read ch. 1"), Chars("Quiz"),
                        Chars("Due Jan 28"), Node("p", 7, Chars("Read ch. 2")))),
     PageAt(Chars("https://lms.test/c"),
            SectionsDoc(Node("h1", 2, Chars("Grades")), Chars("Read ch. 1"), Chars("Quiz"),
                        Chars("Read ch. 3"), Node("p", 7, Chars("Read ch. 2"))))}

\* a page has loaded, the content script has not run yet; the worker has started
CaptureInit ==
    /\ vocab = "none"
    /\ frags = <<>>
    /\ text = <<>>
    /\ env \in ScrapeEnvs
    /\ pc = "idle"
    /\ dateOut = Null
    /\ timeOut = Null
    /\ localOut = Null
    /\ dueOut = Null
    /\ NormIdle
    /\ CleanIdle
    /\ SaveIdle
    /\ EnvIdle
    /\ doc \in CaptureDocs
    /\ scrapePc = "idle"
    /\ candidates = <<>>
    /\ results = <<>>
    /\ titleEl = 0
    /\ titleOut = Null
    /\ injected = FALSE
    /\ requestScrape = FALSE
    /\ loadTimer = FALSE
    /\ tabMsgs = <<>>
    /\ getLast = FALSE
    /\ lastScrapedTasks = <<>>
    /\ lastScrape = [done |-> FALSE, tasks |-> <<>>]
    /\ lastAnswer = Null

\* content script: the function run on injection
InjectedScrape ==
    /\ ~injected
    /\ Len(tabMsgs) < MaxInFlight
    /\ injected' = TRUE
    /\ lastScrape' = [done |-> TRUE, tasks |-> scrapeTasks]
    /\ tabMsgs' = AfterScrape(lastScrape'.tasks)
    /\ UNCHANGED <<requestScrape, loadTimer, getLast, lastScrapedTasks, lastAnswer,
                   parseVars, normVars, cleanVars, domVars, saveVars, envVars>>

\* the tab goes to another page: the content script and a REQUEST_SCRAPE on its way
\* to it are gone
Navigate ==
    /\ \E next \in CaptureDocs \ {doc} : doc' = next
    /\ injected' = FALSE
    /\ requestScrape' = FALSE
    /\ UNCHANGED <<scrapePc, candidates, results, titleEl, titleOut,
                   loadTimer, tabMsgs, getLast, lastScrapedTasks, lastScrape, lastAnswer,
                   parseVars, normVars, cleanVars, saveVars, envVars>>

\* popup: onRefresh up to its REQUEST_SCRAPE; ensureContentScript runs the content
\* script, which scrapes if the page has not been scraped yet
OnRefresh ==
    /\ ~requestScrape
    /\ ~loadTimer
    /\ Len(tabMsgs) < MaxInFlight
    /\ requestScrape' = TRUE
    /\ injected' = TRUE
    /\ IF injected
       THEN UNCHANGED <<lastScrape, tabMsgs>>
       ELSE /\ lastScrape' = [done |-> TRUE, tasks |-> scrapeTasks]
            /\ tabMsgs' = AfterScrape(lastScrape'.tasks)
    /\ UNCHANGED <<loadTimer, getLast, lastScrapedTasks, lastAnswer,
                   parseVars, normVars, cleanVars, domVars, saveVars, envVars>>

\* content script: the REQUEST_SCRAPE listener; its response lets onRefresh set the
\* timer for loadTasks
OnRequestScrape ==
    /\ requestScrape
    /\ Len(tabMsgs) < MaxInFlight
    /\ requestScrape' = FALSE
    /\ lastScrape' = [done |-> TRUE, tasks |-> scrapeTasks]
    /\ tabMsgs' = AfterScrape(lastScrape'.tasks)
    /\ loadTimer' = TRUE
    /\ UNCHANGED <<injected, getLast, lastScrapedTasks, lastAnswer,
                   parseVars, normVars, cleanVars, domVars, saveVars, envVars>>

\* popup: loadTasks, when the popup opens or when the timer of onRefresh fires
LoadTasks ==
    /\ ~getLast
    /\ loadTimer' = FALSE
    /\ statusEl' = [text |-> <<>>, type |-> "hidden"]
    /\ getLast' = TRUE
    /\ UNCHANGED <<injected, requestScrape, tabMsgs, lastScrapedTasks, lastScrape, lastAnswer,
                   saveList, originReady, saveMsg, saveResp, workerPc, merged, saveIdx,
                   saveResults, posted, fetched, popupPc, hideTimer,
                   parseVars, normVars, cleanVars, domVars, envVars>>

\* worker: the SCRAPED_TASKS branch of the message listener
OnScrapedTasks ==
    /\ tabMsgs # <<>>
    /\ tabMsgs' = Tail(tabMsgs)
    /\ lastScrapedTasks' = StoredTasks(Head(tabMsgs))
    /\ UNCHANGED <<injected, requestScrape, loadTimer, getLast, lastScrape, lastAnswer,
                   parseVars, normVars, cleanVars, domVars, saveVars, envVars>>

\* worker: the GET_LAST_TASKS branch of the message listener
OnGetLastTasks ==
    /\ getLast
    /\ getLast' = FALSE
    /\ lastAnswer' = [ok |-> TRUE, tasks |-> lastScrapedTasks]
    /\ UNCHANGED <<injected, requestScrape, loadTimer, tabMsgs, lastScrapedTasks, lastScrape,
                   parseVars, normVars, cleanVars, domVars, saveVars, envVars>>

CaptureNext ==
    \/ InjectedScrape
    \/ Navigate
    \/ OnRefresh
    \/ OnRequestScrape
    \/ LoadTasks
    \/ OnScrapedTasks
    \/ OnGetLastTasks

SpecCapture == CaptureInit /\ [][CaptureNext]_vars

-----------------------------------------------------------------------------
(* What the words of the vocabularies say, read off the words themselves.  *)

\* the DateWords that are YYYY-MM-DD tokens, with the year, month and day they write
IsoWords == {2, 3}

IsoFields(w) == IF w = 2 THEN [y |-> 2026, m |-> 1, d |-> 26] ELSE [y |-> 2025, m |-> 2, d |-> 29]

\* the DateWords that are month-name dates with a year, without one, relative keywords
MdyWords == {4}

MdWords == {5, 6}

MdFields(w) == IF w = 5 THEN [m |-> 0, d |-> 26] ELSE [m |-> 1, d |-> 29]

RelWords == {7}

HasWord(S) == \E i \in DOMAIN frags : frags[i] \in S

FirstWord(S) == frags[MinOf({i \in DOMAIN frags : frags[i] \in S})]

\* a year, month (1..12) and day that name a day of the calendar
IsCalendarDay(y, m, d) == m \in 1..12 /\ d \in 1..DaysInMonth(y, m - 1)

-----------------------------------------------------------------------------
(* C2: a text with a YYYY-MM-DD token parses to the date of that token     *)
(* (the leftmost one), whatever month-name dates or relative keywords the  *)
(* text also holds, before or after it: the date is built from the token's *)
(* year, month and day, and for a token that names a calendar day (year    *)
(* 100 or later) it is exactly that year, month and day.                   *)
C2_IsoTokenWins ==
    (vocab = "date" /\ pc = "done" /\ HasWord(IsoWords)) =>
        LET w == IsoFields(FirstWord(IsoWords))
        IN  /\ dateOut = NewDate(w.y, w.m - 1, w.d)
            /\ (w.y >= 100 /\ IsCalendarDay(w.y, w.m, w.d)) =>
                  dateOut = [y |-> w.y, m |-> w.m - 1, d |-> w.d]

\* "Mar 5, 2027" before the token and "tomorrow" after it: the token's date is returned
C2_Witness ==
    /\ pc = "done"
    /\ frags = <<4, 2, 7>>
    /\ dateOut = [y |-> 2026, m |-> 0, d |-> 26]

(* C2 as stated: a text with a YYYY-MM-DD token parses to exactly the year, *)
(* the month and the day of that token, whatever else the text holds.      *)
C2_IsoTokenExact ==
    (vocab = "date" /\ pc = "done" /\ HasWord(IsoWords)) =>
        LET w == IsoFields(FirstWord(IsoWords))
        IN  dateOut = [y |-> w.y, m |-> w.m - 1, d |-> w.d]

(* C3: a month-name date without a year (no ISO token, no month-day-year   *)
(* date in the text) gets the current year, rolled forward by one exactly  *)
(* when that date is strictly earlier than now, and keeps the month and    *)
(* the day the text names.  Stated for the cases where the date so         *)
(* described is a day of the calendar.                                     *)
C3_MonthDayRollsOneYear ==
    (vocab = "date" /\ pc = "done" /\ HasWord(MdWords) /\ ~HasWord(IsoWords \cup MdyWords)) =>
        LET w      == MdFields(FirstWord(MdWords))
            named  == [y |-> env.now.y, m |-> w.m, d |-> w.d]
            year   == IF DateBeforeNow(named, env.now) THEN env.now.y + 1 ELSE env.now.y
        IN  IsCalendarDay(year, w.m + 1, w.d) =>
                dateOut = [y |-> year, m |-> w.m, d |-> w.d]

\* the part of C3 that holds: "Jan 26" read on 2026-03-01 and on 2025-12-01
C3_JanExamples ==
    (vocab = "date" /\ pc = "done" /\ frags = <<1, 5>>) =>
        /\ env.now = [y |-> 2026, m |-> 2, d |-> 1, tod |-> 600] =>
              dateOut = [y |-> 2027, m |-> 0, d |-> 26]
        /\ env.now = [y |-> 2025, m |-> 11, d |-> 1, tod |-> 600] =>
              dateOut = [y |-> 2026, m |-> 0, d |-> 26]

\* the TimeWords with a minute component, the meridian markers, the bare integers,
\* and the words that end in at, until or by
MinuteWords == {4, 5}

MeridianWords == {6}

BareWords == {3, 7}

KeywordEndWords == {2, 8}

TimeRan == vocab = "time" /\ pc \in {"done", "time"}

\* every numeric token of the text is a bare integer
OnlyBareNumbers == ~HasWord(MinuteWords \cup MeridianWords)

\* some number directly follows a word ending in at, until or by
NumberAfterKeyword ==
    \E i \in DOMAIN frags :
        i + 1 \in DOMAIN frags /\ frags[i] \in KeywordEndWords /\ frags[i + 1] \in BareWords

\* no time: parseTime returned none and the due date is the date at local midnight
NoTimeExtracted ==
    /\ timeOut = Null
    /\ (pc = "done" /\ dateOut # Null) =>
          /\ localOut = [y |-> dateOut.y, m |-> dateOut.m, d |-> dateOut.d, h |-> 0, mi |-> 0]
          /\ dueOut = ToISOString(localOut, env.tz)

(* C4: every time of day parseTime returns has hours in 0..23 and minutes  *)
(* in 0..59, and layering it on the date leaves the date's day unchanged.  *)
C4_TimeOfDayInRange ==
    (TimeRan /\ timeOut # Null) =>
        /\ timeOut.hours \in 0..23
        /\ timeOut.minutes \in 0..59
        /\ pc = "done" =>
              (localOut.y = dateOut.y /\ localOut.m = dateOut.m /\ localOut.d = dateOut.d)

\* the part of C4 that holds: the hours are always in 0..23
C4_HoursInRange == (TimeRan /\ timeOut # Null) => timeOut.hours \in 0..23

(* C5 as stated: a text whose numbers are all bare integers (no minutes,   *)
(* no meridian marker) never yields a time.                                *)
C5_BareNumberNeverATime == (TimeRan /\ OnlyBareNumbers) => NoTimeExtracted

(* C5 as amended: a text whose numbers are all bare integers yields no     *)
(* time unless one of them directly follows the letters at, until or by    *)
(* and white space (the proximity match takes a bare hour).                *)
C5_BareNumberOutsideProximity ==
    (TimeRan /\ OnlyBareNumbers /\ ~NumberAfterKeyword) => NoTimeExtracted

\* "Jan 26 5": a date, a bare 5, no time, the due date at local midnight
C5_Witness ==
    /\ pc = "done"
    /\ frags = <<1, 3>>
    /\ dateOut # Null
    /\ timeOut = Null
    /\ localOut.h = 0 /\ localOut.mi = 0

(* C6: normalizeTime on an hour h in 0..23: h > 12 gives h whatever the    *)
(* meridian; otherwise pm with h < 12 gives h + 12, am with h = 12 gives   *)
(* 0, anything else h; the minutes are returned as given.  "17:00 pm" is   *)
(* 17:00 and "5 pm" is 17:00.                                              *)
C6_NormalizeTable ==
    /\ (normOut # Null /\ normIn.hours \in 0..23) =>
          /\ normOut.minutes = normIn.minutes
          /\ normIn.hours > 12 => normOut.hours = normIn.hours
          /\ (normIn.hours < 12 /\ normIn.meridian = "pm") => normOut.hours = normIn.hours + 12
          /\ (normIn.hours = 12 /\ normIn.meridian = "am") => normOut.hours = 0
          /\ (normIn.hours = 12 /\ normIn.meridian # "am") => normOut.hours = 12
          /\ (normIn.hours < 12 /\ normIn.meridian # "pm") => normOut.hours = normIn.hours
    /\ parseTime(<<"1","7",":","0","0"," ","p","m">>) = [hours |-> 17, minutes |-> 0]
    /\ parseTime(<<"5"," ","p","m">>) = [hours |-> 17, minutes |-> 0]

\* 17 with a bogus pm stays 17
C6_Witness ==
    /\ normIn = [hours |-> 17, minutes |-> 0, meridian |-> "pm"]
    /\ normOut = [hours |-> 17, minutes |-> 0]


-----------------------------------------------------------------------------
(* What the lines of LineWords are, read off the lines themselves.         *)

\* "hier": a class/unit/week/weekday entry; "name": two capitalized words; "junk": a
\* standalone number or an empty line; "other": anything else
LineKind == <<"hier", "hier", "name", "other", "junk", "other", "hier", "junk", "other">>

\* the line without the white space around it
LineTrimmed(w) == IF w = 6 THEN LineWords[4] ELSE LineWords[w]

NotJunk(w) == LineKind[w] # "junk"

NotName(w) == LineKind[w] # "name"

\* the lines that remain after junk is dropped and consecutive duplicates are collapsed
Collapsed(ws) ==
    SubseqAt(ws, {i \in DOMAIN ws : i = 1 \/ LineTrimmed(ws[i]) # LineTrimmed(ws[i - 1])})

Remaining(ws) == Collapsed(SelectSeq(ws, NotJunk))

TrimmedLines(ws) == [i \in DOMAIN ws |-> LineTrimmed(ws[i])]

\* the positions of ws that follow a hierarchy entry and are not one themselves
AfterHierarchy(ws) ==
    {a \in DOMAIN ws : LineKind[ws[a]] # "hier" /\ \E h \in 1..(a - 1) : LineKind[ws[h]] = "hier"}

\* the hierarchy and the details when the line at position a (0: no such line) is the
\* assignment: hierarchy entries up to it, every other line in the details
SplitAt(ws, a) ==
    [hierarchy |-> TrimmedLines(SubseqAt(ws, {i \in DOMAIN ws :
                        (a = 0 \/ i <= a) /\ (i = a \/ LineKind[ws[i]] = "hier")})),
     details   |-> TrimmedLines(SubseqAt(ws, {i \in DOMAIN ws :
                        (a # 0 /\ i > a) \/ (i # a /\ LineKind[ws[i]] # "hier")}))]

\* the hierarchy line, a blank line, the details
Layout(hd) ==
    IF hd.details = <<>> THEN Join(hd.hierarchy, Chars(" > "))
    ELSE IF hd.hierarchy = <<>> THEN Join(hd.details, <<"\n">>)
    ELSE Join(hd.hierarchy, Chars(" > ")) \o <<"\n", "\n">> \o Join(hd.details, <<"\n">>)

FirstAfterHierarchy(ws) == IF AfterHierarchy(ws) = {} THEN 0 ELSE MinOf(AfterHierarchy(ws))

-----------------------------------------------------------------------------
(* C7 as stated: the example lines give "Section B > Week 3 > Essay Draft",*)
(* a blank line and the detail "Due Jan 26"; and of the lines that remain  *)
(* after junk and consecutive duplicates are gone, the first that follows  *)
(* a hierarchy entry and is not one becomes the last element of the        *)
(* hierarchy and every later line goes to the details.                     *)
C7_FirstLineAfterHierarchy ==
    cleanPc = "done" =>
        /\ cleanLines = ExampleLines =>
              cleanOut = Chars("Section B > Week 3 > Essay Draft\n\nDue Jan 26")
        /\ LET r == Remaining(cleanLines)
               a == FirstAfterHierarchy(r)
           IN  a # 0 =>
                  /\ cleanLocals.loop # Null
                  /\ cleanLocals.loop.hierarchy = SplitAt(r, a).hierarchy
                  /\ cleanLocals.loop.details = SplitAt(r, a).details
                  /\ cleanOut = Layout(SplitAt(r, a))

(* C7: the example lines give the single line "Section B > Week 3 > Due    *)
(* Jan 26" ("Essay Draft" is two capitalized words and is discarded as a   *)
(* person's name).  When fewer than three lines remain after junk and      *)
(* consecutive duplicates are gone the result is those lines as they are;  *)
(* otherwise the lines that look like a person's name are discarded, and   *)
(* of the others the first that follows a hierarchy entry and is not one   *)
(* becomes the last element of the hierarchy, and every later one goes to  *)
(* the details.                                                            *)
C7_NamesDroppedThenFirstLine ==
    cleanPc = "done" =>
        /\ cleanLines = ExampleLines => cleanOut = Chars("Section B > Week 3 > Due Jan 26")
        /\ LET r == Remaining(cleanLines)
               n == SelectSeq(r, NotName)
               a == FirstAfterHierarchy(n)
           IN  IF Len(r) < 3
               THEN /\ cleanLocals.loop = Null
                    /\ cleanOut = Trim(Join([i \in DOMAIN r |-> LineWords[r[i]]], <<"\n">>))
               ELSE /\ cleanLocals.loop.hierarchy = SplitAt(n, a).hierarchy
                    /\ cleanLocals.loop.details = SplitAt(n, a).details
                    /\ cleanLocals.loop.foundAssignment = (a # 0)
                    /\ cleanOut = Layout(SplitAt(n, a))

C7_Witness ==
    /\ cleanPc = "done"
    /\ cleanLines = ExampleLines
    /\ cleanLocals.loop.hierarchy = <<Chars("Section B"), Chars("Week 3"), Chars("Due Jan 26")>>
    /\ cleanLocals.loop.details = <<>>
    /\ cleanOut = Chars("Section B > Week 3 > Due Jan 26")

-----------------------------------------------------------------------------
(* What a scrape should give, read off the document.                       *)

\* the element is shown: an HTMLElement that is no script, style, noscript, template,
\* svg or path, and is displayed, visible and not transparent
IsShown(e) ==
    /\ doc.nodes[e].html
    /\ doc.nodes[e].tag \notin {"script", "style", "noscript", "template", "svg", "path"}
    /\ doc.nodes[e].display # "none"
    /\ doc.nodes[e].visibility # "hidden"
    /\ doc.nodes[e].opacity # "0"

\* the title and the due date a candidate resolves to; the date is Null when the
\* candidate does not pass the gate or the parser
Resolved(c) ==
    [text    |-> c.text,
     title   |-> getTitle(c.el),
     dueDate |-> IF DueKeywordsTest(c.text)
                 THEN parseDateTimeFromText(c.text, env.now, env.tz)
                 ELSE Null]

HasDueDate(r) == r.dueDate # Null

SamePair(r, s) == r.title = s.title /\ r.dueDate = s.dueDate

\* the candidates that pass the gate and the parser, in collection order
Passing == SelectSeq([i \in DOMAIN candidates |-> Resolved(candidates[i])], HasDueDate)

\* results is one record for the first of each (title, dueDate) pair of ps, in order
OneRecordPerPair(ps) ==
    One({/\ Len(results) = Cardinality(firsts)
         /\ \A k \in DOMAIN results :
               /\ SamePair(results[k], ps[Nth(firsts, k)])
               /\ results[k].raw = cleanRawText(ps[Nth(firsts, k)].text) :
            firsts \in {{i \in DOMAIN ps : \A j \in 1..(i - 1) : ~SamePair(ps[j], ps[i])}}})

-----------------------------------------------------------------------------
(* C1: the list scrapeTasks returns never holds two records with the same  *)
(* (title, dueDate) pair; of the candidates that pass the gate and the     *)
(* parser, the first of each pair in collection order gives a record, the  *)
(* others none, and the records are in collection order.                   *)
C1_OneRecordPerTitleAndDueDate ==
    scrapePc = "scraped" =>
        /\ \A i, j \in DOMAIN results : SamePair(results[i], results[j]) => i = j
        /\ One({OneRecordPerPair(ps) : ps \in {Passing}})

\* two candidates with the same title and due date gave one record, a third with
\* another due date a second one
C1_Witness ==
    /\ scrapePc = "scraped"
    /\ Len(candidates) >= 3
    /\ Len(results) = 2
    /\ results[1].title = results[2].title
    /\ results[1].dueDate # results[2].dueDate
    /\ \E i, j \in DOMAIN candidates :
          /\ i < j
          /\ HasDueDate(Resolved(candidates[i]))
          /\ SamePair(Resolved(candidates[i]), Resolved(candidates[j]))

(* C8: every block scrapeTasks tests against the due keywords is the       *)
(* trimmed text of a shown element, is 8 to 1000 characters long, and is   *)
(* tested once: no block is tested twice, and the block comes from the     *)
(* first shown element in traversal order that has this trimmed text.      *)
C8_GateSeesShownBlocksOnce ==
    scrapePc = "scraped" =>
        \A i \in DOMAIN candidates :
            /\ IsShown(candidates[i].el)
            /\ candidates[i].text = Trim(InnerText(candidates[i].el))
            /\ Len(candidates[i].text) >= 8
            /\ Len(candidates[i].text) <= 1000
            /\ \A j \in 1..(i - 1) :
                  candidates[j].text # candidates[i].text /\ candidates[j].el < candidates[i].el
            /\ \A e \in 1..(candidates[i].el - 1) :
                  IsShown(e) => Trim(InnerText(e)) # candidates[i].text

\* a block of 1000 characters was tested, a shown block of fewer than 8 was not, and
\* a shown element that repeats an earlier element's text was passed over
C8_Witness ==
    /\ scrapePc = "scraped"
    /\ \E i \in DOMAIN candidates : Len(candidates[i].text) = 1000
    /\ \E e \in DOMAIN doc.nodes :
          /\ IsShown(e)
          /\ Len(Trim(InnerText(e))) \in 1..7
          /\ \A i \in DOMAIN candidates : candidates[i].el # e
    /\ \E e \in DOMAIN doc.nodes :
          /\ IsShown(e)
          /\ \A i \in DOMAIN candidates : candidates[i].el # e
          /\ \E i \in DOMAIN candidates :
                candidates[i].el < e /\ candidates[i].text = Trim(InnerText(e))

-----------------------------------------------------------------------------
(* The title the sources of a document give, in their order.               *)

\* the trimmed text of the first tag element of the document, <<>> when there is none
FirstOfTag(tag) ==
    IF \E n \in DOMAIN doc.nodes : doc.nodes[n].tag = tag
    THEN Trim(InnerText(MinOf({n \in DOMAIN doc.nodes : doc.nodes[n].tag = tag})))
    ELSE <<>>

\* the headings under cur, in document order
HeadingsUnder(cur) ==
    {n \in DOMAIN doc.nodes :
        doc.nodes[n].tag \in {"h1", "h2", "h3", "h4"} /\ IsDescendant(n, cur)}

\* the text of the heading just before cur, <<>> when no heading is just before it
HeadingBefore(cur) ==
    IF \E s \in 1..(cur - 1) : doc.nodes[s].parent = doc.nodes[cur].parent
    THEN LET s == MaxOf({x \in 1..(cur - 1) : doc.nodes[x].parent = doc.nodes[cur].parent})
         IN  IF doc.nodes[s].tag \in {"h1", "h2", "h3", "h4"} THEN Trim(InnerText(s)) ELSE <<>>
    ELSE <<>>

\* what the level cur gives when any non-empty heading under it counts: the first
\* of them, else the heading just before cur; <<>> when it has neither
LevelTitleAny(cur) ==
    IF \E n \in HeadingsUnder(cur) : Trim(InnerText(n)) # <<>>
    THEN Trim(InnerText(MinOf({n \in HeadingsUnder(cur) : Trim(InnerText(n)) # <<>>})))
    ELSE HeadingBefore(cur)

\* what the level cur gives when only the first heading under it counts
LevelTitleFirst(cur) ==
    IF HeadingsUnder(cur) # {} /\ Trim(InnerText(MinOf(HeadingsUnder(cur)))) # <<>>
    THEN Trim(InnerText(MinOf(HeadingsUnder(cur))))
    ELSE HeadingBefore(cur)

LevelTitle(cur, any) == IF any THEN LevelTitleAny(cur) ELSE LevelTitleFirst(cur)

\* the first level from cur up to the body that gives a title
RECURSIVE WalkTitle(_, _)
WalkTitle(cur, any) ==
    IF cur = 0 \/ cur = doc.body THEN <<>>
    ELSE IF LevelTitle(cur, any) # <<>> THEN LevelTitle(cur, any)
    ELSE WalkTitle(doc.nodes[cur].parent, any)

\* the first non-empty source
FirstSource(el, any) ==
    IF FirstOfTag("h1") # <<>> THEN FirstOfTag("h1")
    ELSE IF FirstOfTag("h2") # <<>> THEN FirstOfTag("h2")
    ELSE IF WalkTitle(el, any) # <<>> THEN WalkTitle(el, any)
    ELSE IF doc.title # <<>> THEN doc.title
    ELSE Chars("Captured task")

(* C9 as stated: getTitle returns a non-empty string, the first non-empty  *)
(* source in the order: the document's first h1; its first h2; walking up  *)
(* from the element toward the body, the first level that has a non-empty  *)
(* heading (h1-h4) under it or a non-empty heading just before it; the     *)
(* document title; "Captured task".                                        *)
C9_TitleIsFirstNonEmptySource ==
    titleOut # Null => titleOut # <<>> /\ titleOut = FirstSource(titleEl, TRUE)

(* C9: getTitle returns a non-empty string, the first non-empty source in  *)
(* the order: the document's first h1; its first h2; walking up from the   *)
(* element toward the body, the first level whose first heading (h1-h4)    *)
(* under it, in document order, is non-empty, or that has a non-empty      *)
(* heading just before it; the document title; "Captured task".  A level   *)
(* whose first heading is empty gives no title from the headings under it, *)
(* whatever other headings it has.                                         *)
C9_TitleIsFirstSourceByFirstHeading ==
    titleOut # Null => titleOut # <<>> /\ titleOut = FirstSource(titleEl, FALSE)

\* no page heading, an empty heading next to the element: the title is the heading
\* found two levels up
C9_Witness ==
    /\ titleEl = 8
    /\ FirstOfTag("h1") = <<>>
    /\ FirstOfTag("h2") = <<>>
    /\ doc.nodes[7].tag = "h4"
    /\ doc.nodes[7].own = <<>>
    /\ titleOut = Chars("Quiz")

-----------------------------------------------------------------------------
(* What a save should do, read off the POSTs and what they settled with.   *)

\* the i-th POST got a response, and the response is not OK
NotOkResponse(i) == ~fetched[i].rejected /\ fetched[i].status \notin 200..299

OkResponse(i) == ~fetched[i].rejected /\ fetched[i].status \in 200..299

\* the title a task is posted with
PostedTitle(t) == IF t.title = <<>> THEN Chars("Captured task") ELSE t.title

(* C10: the tasks are posted one at a time in list order; the worker       *)
(* answers ok: true, with one result per task, only when every POST got an *)
(* OK response; when a POST gets a response that is not OK the worker      *)
(* answers ok: false with an error that starts with "API " and the status  *)
(* code of that POST, no later task is posted, and the popup's status line *)
(* gets "Failed: " and that error and never the "Saved" message.           *)
C10_SaveStopsAtFailedPost ==
    /\ Len(posted) <= Len(saveList)
    /\ Len(fetched) <= Len(posted)
    /\ Len(posted) <= Len(fetched) + 1
    /\ \A i \in DOMAIN posted :
          /\ posted[i].title = PostedTitle(saveList[i])
          /\ posted[i].dueDate = saveList[i].dueDate
          /\ posted[i].description = saveList[i].description
          /\ posted[i].labels = saveList[i].labels
    /\ (saveResp # Null /\ saveResp.ok) =>
          /\ Len(fetched) = Len(saveList)
          /\ \A i \in DOMAIN fetched : OkResponse(i)
          /\ Len(saveResp.results) = Len(saveList)
    /\ statusEl.type = "success" =>
          saveResp # Null /\ saveResp.ok /\ \A i \in DOMAIN fetched : OkResponse(i)
    /\ \A i \in DOMAIN fetched :
          NotOkResponse(i) =>
              /\ i = Len(fetched)
              /\ Len(posted) = i
              /\ saveResp # Null
              /\ ~saveResp.ok
              /\ SubSeq(saveResp.error, 1, 7) = Chars("API ") \o Decimal(fetched[i].status)
              /\ statusEl.type # "success"
              /\ ~hideTimer
              /\ popupPc = "done" =>
                    /\ statusEl.type = "error"
                    /\ statusEl.text = Chars("Failed: ") \o saveResp.error

\* the second of three tasks got 401: the third was not posted, the popup says so
C10_Witness ==
    /\ Len(saveList) = 3
    /\ Len(fetched) = 2
    /\ OkResponse(1)
    /\ NotOkResponse(2)
    /\ fetched[2].status = 401
    /\ Len(posted) = 2
    /\ popupPc = "done"
    /\ statusEl.text = Chars("Failed: API 401: Unauthorized")

-----------------------------------------------------------------------------
(* What a choice of the API target should come to.                         *)

\* nothing of the SET_ENV / storage feedback is pending
EnvSettled ==
    /\ storageQ = <<>>
    /\ storageOut = <<>>
    /\ \A i \in DOMAIN envMsgs : envMsgs[i].type # "SET_ENV"

\* the worker uses, reports and has stored the mode the popup chose last
EnvAgrees ==
    /\ currentOrigin = resolveOrigin(lastMode)
    /\ stored = lastMode
    /\ GetEnvResponse.origin = resolveOrigin(lastMode)

(* C11: after a SET_ENV message with mode m, whatever the interleaving with *)
(* the worker's startup load of the stored mode, the setOrigin / onChanged  *)
(* feedback comes to rest, and then currentOrigin is resolveOrigin(m), the  *)
(* stored value is m and GET_ENV reports that origin.                       *)
C11_SetEnvSettles == (lastMode # <<>>) ~> (EnvSettled /\ EnvAgrees)

\* the part of C11 that holds: whenever the feedback has come to rest after a SET_ENV,
\* the worker, its answer and storage agree with the mode sent
C11_SettledAgrees == (lastMode # <<>> /\ EnvSettled) => EnvAgrees

-----------------------------------------------------------------------------
(* What the popup should be given as the captured list.                    *)

\* the scraped tasks of a list of the worker's tasks
ScrapeOf(tasks) ==
    [i \in DOMAIN tasks |->
        [title |-> tasks[i].title, dueDate |-> tasks[i].dueDate, raw |-> tasks[i].raw]]

\* the worker answers GET_LAST_TASKS, a scrape has finished and no SCRAPED_TASKS
\* message is on its way
AnswersAfterScrape == getLast /\ ~getLast' /\ lastScrape.done /\ tabMsgs = <<>>

(* C12: once a scrape has finished and its messages have been delivered,   *)
(* the list the worker returns for GET_LAST_TASKS is the result of that    *)
(* most recent scrape, also when that scrape found no tasks: never the     *)
(* tasks of an earlier scrape or an earlier page.                          *)
C12_LastTasksAreLastScrape ==
    [][AnswersAfterScrape => ScrapeOf(lastAnswer'.tasks) = lastScrape.tasks]_vars

\* the part of C12 that holds: the result of a most recent scrape that found tasks
\* is what the worker returns
C12_FoundTasksAreReturned ==
    [][(AnswersAfterScrape /\ lastScrape.tasks # <<>>) =>
            ScrapeOf(lastAnswer'.tasks) = lastScrape.tasks]_vars

=============================================================================
